---- MODULE Spec2Model ----
(***************************************************************************)
(* Search modal of the 1 Enoch reader (js/search.js): the lazily loaded    *)
(* search index, the debounced input and the three match passes of         *)
(* performSearch; and the transliteration engine of the interlinear view   *)
(* (js/interlinear.js).                                                    *)
(*                                                                         *)
(* Strings are sequences of UTF-16 code units (naturals), so that length,  *)
(* trimming, lower-casing, substring containment and decimal parsing are   *)
(* computed as the JavaScript built-ins compute them.                      *)
(*   32 ' '   38 '&'   49 '1'   58 ':'   60 '<'   62 '>'   63 '?'          *)
(*   65 'A'   88 'X'   97 'a'   120 'x'                                    *)
(*   4619 U+120B (la)   4656 U+1230 (sa)                                   *)
(* An object read with Object.entries (the lexicon) is the sequence of its *)
(* [geez, data] pairs in iteration order; an optional field of an entry is *)
(* a field that the record may lack.                                       *)
(***************************************************************************)
EXTENDS Integers, Sequences, FiniteSets, TLC

VARIABLES
    corpus,       \* the documents the site serves: words.json and search_index.json
    wordData,     \* interlinear.js: the lexicon the word modal has loaded, if any
    searchIndex,  \* search.js: the session's index, once built
    modalBuilt,   \* search.js: the modal and its input exist (searchModal)
    inputValue,   \* value of #search-input
    debounce,     \* the timer that the handler's variable debounce names is pending
    timers,       \* time left (ms) of the pending input-handler timers, oldest first
    sinceInput,   \* time (ms) since the last input event, up to DebounceDelay
    clearTimer,   \* openSearch's 100 ms timer is pending
    calls,        \* loadSearchIndex calls waiting for a response, oldest first
    resultsDiv,   \* content of #search-results
    shownFor,     \* the query of the performSearch call that last wrote resultsDiv
    uncaught,     \* a performSearch call has ended with an exception
    indexFetches, \* number of fetches of search_index.json so far
    builds,       \* number of assignments to searchIndex so far
    failures,     \* number of loadSearchIndex calls that have returned null so far
    translitBases, \* interlinear.js: TRANSLIT_BASES
    tlWord,       \* the argument of the last transliterate call
    tlResult,     \* what that call returned
    lastQuery,    \* the query of the performSearch call that started last
    loadingStatus, \* interlinear.js: loadingStatus
    priorityLoaded, \* interlinear.js: priorityLoaded
    fullLoaded,   \* interlinear.js: fullLoaded
    lexCalls,     \* lexicon loads waiting for a response, oldest first
    bgTimers,     \* pending timers of loadFullLexiconInBackground
    geezDefs,     \* interlinear.js: geezDefs
    wtWord,       \* the argument of the last getWordTranslit call
    wtResult,     \* what that call returned
    grammarMode,  \* grammar-view.js: grammarMode
    interlinearMode, \* interlinear.js: interlinearMode
    parallelMode, \* parallel-view.js: parallelMode
    ilBtnDisabled, \* #interlinear-toggle is disabled
    blocks,       \* the .verse-block elements of the page
    modalBody,    \* what .word-modal-body shows
    lastWord,     \* the word of the showWordEvolution call that started last
    idbStore,     \* IndexedDB: what the store wordData holds under 'fullLexicon'
    tgDef,        \* the argument of the last truncateGloss call
    tgResult,     \* what that call returned
    glWord,       \* the argument of the last getWordGloss call
    glResult,     \* what that call returned
    agChar,       \* the argument of the last analyzeGeezChar call
    agResult      \* what that call returned

loadLog == <<indexFetches, builds, failures>>
translitVars == <<translitBases, tlWord, tlResult>>
lexVars == <<loadingStatus, priorityLoaded, fullLoaded, lexCalls, bgTimers>>
lookupVars == <<geezDefs, wtWord, wtResult>>
viewVars == <<grammarMode, interlinearMode, parallelMode, ilBtnDisabled, blocks>>
modalVars == <<modalBody, lastWord, idbStore>>
glossVars == <<tgDef, tgResult, glWord, glResult, agChar, agResult>>
searchVars == <<searchIndex, modalBuilt, inputValue, debounce, timers, sinceInput,
                clearTimer, calls, resultsDiv, shownFor, uncaught, loadLog, lastQuery>>

vars == <<corpus, wordData, searchVars, translitVars, lexVars, lookupVars, viewVars, modalVars, glossVars>>

---------------------------------------------------------------------------
(* Bounds of the model *)

MaxQueryLen == 3
MaxCalls == 2
MaxLoads == 2
MaxLexCalls == 2
MaxBlocks == 2
MaxWordLen == 3
TimeStep == 100
BulkWords == 60
BulkVerses == 36
MaxParticles == 2

(* Constants of the program *)

MinQueryLen == 2
WordCap == 50
VerseCap == 30
GeezLo == 4608
GeezHi == 4991
DebounceDelay == 200
CacheMinEntries == 100
GlossMax == 25
GlossKeep == 22

---------------------------------------------------------------------------
(* JavaScript string built-ins *)

Min(a, b) == IF a < b THEN a ELSE b

Range(s) == {s[i] : i \in DOMAIN s}

WhiteSpace == (9..13) \cup {32, 160}

RECURSIVE TrimStart(_)
TrimStart(s) ==
    IF s # <<>> /\ Head(s) \in WhiteSpace THEN TrimStart(Tail(s)) ELSE s

RECURSIVE TrimEnd(_)
TrimEnd(s) ==
    IF s # <<>> /\ s[Len(s)] \in WhiteSpace
    THEN TrimEnd(SubSeq(s, 1, Len(s) - 1))
    ELSE s

\* String.prototype.trim
Trim(s) == TrimEnd(TrimStart(s))

\* String.prototype.toLowerCase on the Basic Latin letters
ToLowerCase(s) == [i \in DOMAIN s |-> IF s[i] \in 65..90 THEN s[i] + 32 ELSE s[i]]

\* String.prototype.includes
Includes(hay, needle) ==
    \E k \in 0..(Len(hay) - Len(needle)) : SubSeq(hay, k + 1, k + Len(needle)) = needle

\* Array.prototype.includes
ArrayIncludes(arr, x) == \E i \in DOMAIN arr : arr[i] = x

\* Array.prototype.slice(0, n)
Slice(arr, n) == SubSeq(arr, 1, Min(n, Len(arr)))

\* value of a string of decimal digits
RECURSIVE DigitsValue(_)
DigitsValue(s) ==
    IF s = <<>> THEN 0 ELSE 10 * DigitsValue(SubSeq(s, 1, Len(s) - 1)) + (s[Len(s)] - 48)

RECURSIVE LeadingDigits(_)
LeadingDigits(s) ==
    IF s # <<>> /\ Head(s) \in 48..57 THEN <<Head(s)>> \o LeadingDigits(Tail(s)) ELSE <<>>

\* parseInt(s) of a trimmed, unsigned string: the number its leading digits spell,
\* NaN (here -1, which no gematria equals) when it has none
ParseInt(s) == IF LeadingDigits(s) = <<>> THEN -1 ELSE DigitsValue(LeadingDigits(s))

\* Number to decimal string, for n >= 0
RECURSIVE ToDecimal(_)
ToDecimal(n) ==
    IF n < 10 THEN <<48 + n>> ELSE Append(ToDecimal(n \div 10), 48 + (n % 10))

\* (data.f || '') : a missing field reads as the empty string
Field(data, f) == IF f \in DOMAIN data THEN data[f] ELSE <<>>

---------------------------------------------------------------------------
(* The match passes of performSearch *)

\* /[ሀ-፿]/.test(query)
IsGeez(query) == \E i \in DOMAIN query : query[i] >= GeezLo /\ query[i] <= GeezHi

\* mutant: the pattern is not anchored, /\d+/.test(query)
IsDigitsUnanchored(query) == \E i \in DOMAIN query : query[i] \in 48..57

\* /^\d+$/.test(query)
IsDigits(query) == query # <<>> /\ \A i \in DOMAIN query : query[i] \in 48..57

\* mutant: the length test is dropped, only the empty query is refused
TooShortOnlyEmpty(query) == query = <<>>

\* if (!query || query.length < 2)
TooShort(query) == query = <<>> \/ Len(query) < MinQueryLen

\* mutant: the four fields are tested in the order root, transliteration,
\* english_definition, definition
MatchEntryRootFirst(geez, data, query) ==
    LET q == ToLowerCase(query)
        isGeez == IsGeez(query)
        def == ToLowerCase(Field(data, "definition"))
        engDef == ToLowerCase(Field(data, "english_definition"))
        trans == ToLowerCase(Field(data, "transliteration"))
        root == ToLowerCase(Field(data, "root"))
    IN  IF isGeez /\ Includes(geez, query)
        THEN [matched |-> TRUE, matchType |-> "Ge'ez match"]
        ELSE IF ~isGeez
        THEN IF Includes(root, q) THEN [matched |-> TRUE, matchType |-> "Root"]
             ELSE IF Includes(trans, q)
             THEN [matched |-> TRUE, matchType |-> "Transliteration"]
             ELSE IF Includes(engDef, q)
             THEN [matched |-> TRUE, matchType |-> "Modern definition"]
             ELSE IF Includes(def, q) THEN [matched |-> TRUE, matchType |-> "Definition"]
             ELSE [matched |-> FALSE, matchType |-> ""]
        ELSE [matched |-> FALSE, matchType |-> ""]

\* mutant: the key is tested for every query, script-native or not
MatchEntryKeyAlways(geez, data, query) ==
    LET q == ToLowerCase(query)
        def == ToLowerCase(Field(data, "definition"))
        engDef == ToLowerCase(Field(data, "english_definition"))
        trans == ToLowerCase(Field(data, "transliteration"))
        root == ToLowerCase(Field(data, "root"))
    IN  IF Includes(geez, query)
        THEN [matched |-> TRUE, matchType |-> "Ge'ez match"]
        ELSE IF ~IsGeez(query)
        THEN IF Includes(def, q) THEN [matched |-> TRUE, matchType |-> "Definition"]
             ELSE IF Includes(engDef, q)
             THEN [matched |-> TRUE, matchType |-> "Modern definition"]
             ELSE IF Includes(trans, q)
             THEN [matched |-> TRUE, matchType |-> "Transliteration"]
             ELSE IF Includes(root, q) THEN [matched |-> TRUE, matchType |-> "Root"]
             ELSE [matched |-> FALSE, matchType |-> ""]
        ELSE [matched |-> FALSE, matchType |-> ""]

\* body of the word loop: matched and matchType for one lexicon entry
MatchEntry(geez, data, query) ==
    LET q == ToLowerCase(query)
        isGeez == IsGeez(query)
        def == ToLowerCase(Field(data, "definition"))
        engDef == ToLowerCase(Field(data, "english_definition"))
        trans == ToLowerCase(Field(data, "transliteration"))
        root == ToLowerCase(Field(data, "root"))
    IN  IF isGeez /\ Includes(geez, query)
        THEN [matched |-> TRUE, matchType |-> "Ge'ez match"]
        ELSE IF ~isGeez
        THEN IF Includes(def, q) THEN [matched |-> TRUE, matchType |-> "Definition"]
             ELSE IF Includes(engDef, q)
             THEN [matched |-> TRUE, matchType |-> "Modern definition"]
             ELSE IF Includes(trans, q)
             THEN [matched |-> TRUE, matchType |-> "Transliteration"]
             ELSE IF Includes(root, q) THEN [matched |-> TRUE, matchType |-> "Root"]
             ELSE [matched |-> FALSE, matchType |-> ""]
        ELSE [matched |-> FALSE, matchType |-> ""]

\* the word loop: every entry in turn, the matched ones pushed in that order
WordLoop(words, query) ==
    LET tried == [i \in DOMAIN words |->
                     [geez |-> words[i].geez, data |-> words[i].data,
                      m |-> MatchEntry(words[i].geez, words[i].data, query)]]
        pushed == SelectSeq(tried, LAMBDA t : t.m.matched)
    IN  [k \in DOMAIN pushed |->
            [geez |-> pushed[k].geez, data |-> pushed[k].data,
             matchType |-> pushed[k].m.matchType]]

Reverse(s) == [i \in 1..Len(s) |-> s[Len(s) + 1 - i]]

\* mutant: matches are put at the front of the list (unshift for push)
WordPassReversed(index, query) == Reverse(WordLoop(index.words, query))

\* 1. wordMatches
WordPass(index, query) == WordLoop(index.words, query)

\* the verse loop: every verse in turn, the matching ones pushed in that order
VerseLoop(verses, q) ==
    SelectSeq(verses, LAMBDA verse : Includes(ToLowerCase(verse.english), q))

\* mutant: the verse pass runs for script-native queries too
VersePassAnyQuery(index, query) == VerseLoop(index.verses, ToLowerCase(query))

\* 2. verseMatches
VersePass(index, query) ==
    IF ~IsGeez(query) THEN VerseLoop(index.verses, ToLowerCase(query)) ELSE <<>>

\* the gematria loop: every entry in turn, those with data.gematria === num pushed
GematriaLoop(words, num) ==
    SelectSeq(words, LAMBDA e : "gematria" \in DOMAIN e.data /\ e.data.gematria = num)

\* 3. gematriaMatches
GematriaPass(index, query) ==
    IF IsDigits(query) THEN GematriaLoop(index.words, ParseInt(query)) ELSE <<>>

\* the locations loop: every verse in turn, the ref pushed when the verse has the word
LocationLoop(verses, geez) ==
    LET having == SelectSeq(verses, LAMBDA verse : ArrayIncludes(verse.words, geez))
    IN  [k \in DOMAIN having |-> having[k].ref]

\* the sequences f[lo], ..., f[hi] joined
RECURSIVE Joined(_, _, _)
Joined(f, lo, hi) ==
    IF lo > hi THEN <<>>
    ELSE IF lo = hi THEN f[lo]
    ELSE Joined(f, lo, (lo + hi) \div 2) \o Joined(f, (lo + hi) \div 2 + 1, hi)

\* mutant: one location per occurrence of the word, not per verse
LocationsPerOccurrence(index, geez) ==
    LET perVerse == [i \in DOMAIN index.verses |->
                        LET occ == SelectSeq(index.verses[i].words, LAMBDA w : w = geez)
                        IN  [k \in DOMAIN occ |-> index.verses[i].ref]]
    IN  Joined(perVerse, 1, Len(index.verses))

\* locations of one shown word match
Locations(index, geez) == LocationLoop(index.verses, geez)

\* d.definition || d.english_definition || ''
DefOf(d) ==
    IF Field(d, "definition") # <<>> THEN d.definition ELSE Field(d, "english_definition")

---------------------------------------------------------------------------
(* What performSearch writes into #search-results.  The markup is kept as  *)
(* a record: kind tells the variant, the other fields the numbers and      *)
(* items the markup carries.                                               *)

Panel(kind) ==
    [kind |-> kind, label |-> <<>>, total |-> 0,
     wordCount |-> 0, words |-> <<>>, wordMore |-> 0,
     verseCount |-> 0, verses |-> <<>>, verseMore |-> 0,
     gemCount |-> 0, gems |-> <<>>]

Blank == Panel("Blank")
TooShortHint == Panel("TooShort")
Unavailable == Panel("Unavailable")

\* what the serialisation of a text node puts for one code unit
EscapeUnit(c) ==
    IF c = 38 THEN <<38, 97, 109, 112, 59>>
    ELSE IF c = 60 THEN <<38, 108, 116, 59>>
    ELSE IF c = 62 THEN <<38, 103, 116, 59>>
    ELSE <<c>>

RECURSIVE EscapeFrom(_, _)
EscapeFrom(text, i) ==
    IF i > Len(text) THEN <<>> ELSE EscapeUnit(text[i]) \o EscapeFrom(text, i + 1)

\* mutant: escapeHtml hands its argument back
EscapeHtmlNot(text) == text

\* escapeHtml(text): div.textContent = text; return div.innerHTML
EscapeHtml(text) ==
    IF \A i \in DOMAIN text : text[i] \notin {38, 60, 62} THEN text
    ELSE EscapeFrom(text, 1)

\* one search-result-item of the Words section; html holds the texts as the
\* markup carries them
WordItem(index, wm) ==
    [geez |-> wm.geez,
     trans |-> Field(wm.data, "transliteration"),
     matchType |-> wm.matchType,
     def |-> DefOf(wm.data),
     locations |-> Locations(index, wm.geez),
     html |-> [geez |-> wm.geez,
               trans |-> Field(wm.data, "transliteration"),
               def |-> EscapeHtml(DefOf(wm.data)),
               locations |-> Locations(index, wm.geez)]]

\* one search-result-item of the Verses section; html.english is the text
\* that highlightMatch is given
VerseItem(vm) ==
    [ref |-> vm.ref, english |-> vm.english,
     html |-> [ref |-> vm.ref, english |-> EscapeHtml(vm.english)]]

\* one search-result-item of the Gematria section
GematriaItem(gm) ==
    [geez |-> gm.geez,
     trans |-> Field(gm.data, "transliteration"),
     gematria |-> gm.data.gematria,
     def |-> DefOf(gm.data),
     html |-> [geez |-> gm.geez,
               trans |-> Field(gm.data, "transliteration"),
               def |-> EscapeHtml(DefOf(gm.data))]]

\* mutant: the Words section is not cut at the cap
ShownWordsAll(index, wordMatches) ==
    [i \in DOMAIN wordMatches |-> WordItem(index, wordMatches[i])]

\* the shown part of the Words section
ShownWords(index, wordMatches) ==
    LET shown == Slice(wordMatches, WordCap)
    IN  [i \in DOMAIN shown |-> WordItem(index, shown[i])]

\* the shown part of the Verses section
ShownVerses(verseMatches) ==
    LET shown == Slice(verseMatches, VerseCap)
    IN  [i \in DOMAIN shown |-> VerseItem(shown[i])]

\* the Gematria section
ShownGematria(gematriaMatches) ==
    [i \in DOMAIN gematriaMatches |-> GematriaItem(gematriaMatches[i])]

\* mutant: the total adds up the shown items
TotalShown(wordMatches, verseMatches, gematriaMatches) ==
    Min(Len(wordMatches), WordCap) + Min(Len(verseMatches), VerseCap)
        + Len(gematriaMatches)

\* const total = ...
Total(wordMatches, verseMatches, gematriaMatches) ==
    Len(wordMatches) + Len(verseMatches) + Len(gematriaMatches)

\* "Build results HTML" to the end of performSearch
Render(index, wordMatches, verseMatches, gematriaMatches) ==
    IF Len(wordMatches) = 0 /\ Len(verseMatches) = 0 /\ Len(gematriaMatches) = 0
    THEN Panel("NoResults")
    ELSE [kind |-> "Results",
          total |-> Total(wordMatches, verseMatches, gematriaMatches),
          wordCount |-> Len(wordMatches),
          words |-> ShownWords(index, wordMatches),
          wordMore |-> IF Len(wordMatches) > WordCap THEN Len(wordMatches) - WordCap ELSE 0,
          verseCount |-> Len(verseMatches),
          verses |-> ShownVerses(verseMatches),
          verseMore |-> IF Len(verseMatches) > VerseCap
                        THEN Len(verseMatches) - VerseCap ELSE 0,
          gemCount |-> Len(gematriaMatches),
          gems |-> ShownGematria(gematriaMatches)]

\* mutant: the passes are chained with else, a gematria match ends the search
EvaluateShortCircuit(index, query) ==
    IF GematriaPass(index, query) # <<>>
    THEN Render(index, <<>>, <<>>, GematriaPass(index, query))
    ELSE Render(index, WordPass(index, query), VersePass(index, query), <<>>)

\* the loops of performSearch that end it with a TypeError: Object.entries of
\* a lexicon that is null, for...of over verses that are undefined
Throws(index, query) ==
    \/ ~index.wordsOk
    \/ /\ ~index.versesOk
       /\ ~IsGeez(query) \/ WordPass(index, query) # <<>>

\* the canonical form of a code unit under the flag i of a regular expression:
\* the Basic Latin letters in upper case
Canonicalize(c) == IF c \in 97..122 THEN c - 32 ELSE c

\* the pattern, the query with its special characters escaped, matches the
\* text at position k
MatchesAt(text, query, k) ==
    /\ k + Len(query) - 1 <= Len(text)
    /\ \A j \in DOMAIN query : Canonicalize(text[k + j - 1]) = Canonicalize(query[j])

\* text.replace(regex, '<mark class="search-highlight">$1</mark>') with the flag
\* g, from position k on; the text from position from on is not yet put out.
\* The result is the markup as its pieces: the texts outside and inside mark
\* elements, in order.
RECURSIVE ReplaceFrom(_, _, _, _)
ReplaceFrom(text, query, k, from) ==
    IF k > Len(text)
    THEN IF from <= Len(text)
         THEN << [mark |-> FALSE, text |-> SubSeq(text, from, Len(text))] >>
         ELSE << >>
    ELSE IF MatchesAt(text, query, k)
    THEN (IF from < k THEN << [mark |-> FALSE, text |-> SubSeq(text, from, k - 1)] >>
          ELSE << >>)
         \o << [mark |-> TRUE, text |-> SubSeq(text, k, k + Len(query) - 1)] >>
         \o ReplaceFrom(text, query, k + Len(query), k + Len(query))
    ELSE ReplaceFrom(text, query, k + 1, from)

\* highlightMatch(text, query)
HighlightMatch(text, query) ==
    IF query = << >>
    THEN IF text = << >> THEN << >> ELSE << [mark |-> FALSE, text |-> text] >>
    ELSE ReplaceFrom(text, query, 1, 1)

\* the markup that depends on the query: 'Gematria = ' + query,
\* 'No results for "' + escapeHtml(query) + '"', and in every verse item
\* highlightMatch(escapeHtml(vm.english), q)
Labelled(panel, query) ==
    [label |-> IF panel.kind = "NoResults" THEN EscapeHtml(query)
               ELSE IF panel.gemCount > 0 THEN query
               ELSE <<>>,
     verses |-> [k \in DOMAIN panel.verses |->
                    [panel.verses[k] EXCEPT
                        !.html = [highlighted |->
                                     HighlightMatch(@.english, ToLowerCase(query))]
                                 @@ @]]] @@ panel

\* performSearch from "const results = []" on, with the index in hand
Evaluate(index, query) ==
    IF Throws(index, query) THEN Panel("Throws")
    ELSE Labelled(Render(index, WordPass(index, query), VersePass(index, query),
                         GematriaPass(index, query)),
                  query)

---------------------------------------------------------------------------
(* The transliteration engine (js/interlinear.js) *)

\* const rows = [[0x1200, 'h'], ...]
TranslitRows ==
    << <<4608, <<104>>>>, <<4616, <<108>>>>, <<4624, <<72>>>>, <<4632, <<109>>>>,
       <<4640, <<115, 39>>>>, <<4648, <<114>>>>, <<4656, <<115>>>>,
       <<4664, <<115, 104>>>>, <<4672, <<113>>>>, <<4680, <<113, 119>>>>,
       <<4688, <<98>>>>, <<4696, <<98, 119>>>>, <<4704, <<98>>>>, <<4712, <<118>>>>,
       <<4720, <<116>>>>, <<4728, <<99, 104>>>>, <<4736, <<107, 104>>>>,
       <<4744, <<107, 104, 119>>>>, <<4752, <<110>>>>, <<4760, <<110, 121>>>>,
       <<4768, <<39>>>>, <<4776, <<107>>>>, <<4784, <<107, 119>>>>,
       <<4792, <<107, 120>>>>, <<4800, <<107, 120>>>>, <<4808, <<119>>>>,
       <<4816, <<96>>>>, <<4824, <<122>>>>, <<4832, <<122, 104>>>>, <<4840, <<121>>>>,
       <<4848, <<100>>>>, <<4856, <<100, 100>>>>, <<4864, <<106>>>>, <<4872, <<103>>>>,
       <<4880, <<103, 119>>>>, <<4888, <<103, 103, 119>>>>, <<4896, <<84>>>>,
       <<4904, <<80>>>>, <<4912, <<116, 115>>>>, <<4920, <<116, 115, 39>>>>,
       <<4928, <<102>>>>, <<4936, <<112>>>> >>

\* const vowels = ['a', 'u', 'i', 'a', 'e', '', 'o']
Vowels == << <<97>>, <<117>>, <<105>>, <<97>>, <<101>>, <<>>, <<111>> >>

\* mutant: the eighth form is left out of the inner loop's successor
SyllableSevenForms(cons, v) == IF v < 7 THEN cons \o Vowels[v + 1] ELSE cons

\* what the loops of buildTranslitTable store under base + v
Syllable(cons, v) == IF v < 7 THEN cons \o Vowels[v + 1] ELSE cons \o <<119, 97>>

\* buildTranslitTable: the rows are written in order, a later row overwrites
BuildTranslitTable ==
    LET Keys(r) == TranslitRows[r][1] .. TranslitRows[r][1] + 7
        LastRow(cp) ==
            CHOOSE r \in DOMAIN TranslitRows :
                /\ cp \in Keys(r)
                /\ \A q \in DOMAIN TranslitRows : cp \in Keys(q) => q <= r
    IN  [cp \in UNION {Keys(r) : r \in DOMAIN TranslitRows} |->
            Syllable(TranslitRows[LastRow(cp)][2], cp - TranslitRows[LastRow(cp)][1])]

\* the string iterator: a high surrogate followed by a low one is one character
PairAt(s, i) ==
    /\ i < Len(s)
    /\ s[i] \in 55296..56319
    /\ s[i + 1] \in 56320..57343

\* ch.codePointAt(0)
CodePointAt(s, i) ==
    IF PairAt(s, i) THEN 65536 + (s[i] - 55296) * 1024 + (s[i + 1] - 56320)
    ELSE s[i]

\* mutant: a Ge'ez character without a table entry is passed through
TranslitCharPassing(ch, cp) ==
    IF cp \in DOMAIN translitBases /\ translitBases[cp] # <<>> THEN translitBases[cp]
    ELSE ch

\* the body of transliterate's loop, for the character ch with code point cp
TranslitChar(ch, cp) ==
    IF cp \in DOMAIN translitBases /\ translitBases[cp] # <<>> THEN translitBases[cp]
    ELSE IF cp >= 4608 /\ cp <= 4991 THEN <<63>>
    ELSE ch

RECURSIVE TransliterateFrom(_, _)
TransliterateFrom(s, i) ==
    IF i > Len(s) THEN <<>>
    ELSE LET n == IF PairAt(s, i) THEN 2 ELSE 1
         IN  TranslitChar(SubSeq(s, i, i + n - 1), CodePointAt(s, i))
                 \o TransliterateFrom(s, i + n)

\* transliterate(geezWord)
Transliterate(geezWord) == TransliterateFrom(geezWord, 1)

\* the words handed to transliterate: letters of the table, U+1205 (sixth
\* order), U+1358 (Ethiopic, not in the table), a space, and U+1F9E0 as its
\* two surrogates
GeezLetters == {32, 4613, 4619, 4656, 4952, 55358, 56800}

RECURSIVE WordsOfLen(_)
WordsOfLen(n) ==
    IF n = 0 THEN {<<>>}
    ELSE {Append(s, c) : s \in WordsOfLen(n - 1), c \in GeezLetters}

GeezWords == UNION {WordsOfLen(n) : n \in 0..MaxWordLen}

---------------------------------------------------------------------------
(* The documents served with the site: a small lexicon with every         *)
(* optional field present in one entry and absent in another, a bulk       *)
(* lexicon larger than the display caps, an empty one, one with markup     *)
(* characters, and two malformed ones.                                     *)

\* VerseRecord.ref, "<chapter>:<verse>"
Ref(ch, v) == ToDecimal(ch) \o <<58>> \o ToDecimal(v)

SmallWords ==
    << [geez |-> <<4656, 4619>>,
        data |-> [definition |-> <<65, 120, 32, 97>>, transliteration |-> <<120, 97>>,
                  root |-> <<97, 120>>, gematria |-> 11]],
       [geez |-> <<4619, 4656, 4619>>,
        data |-> [english_definition |-> <<120, 97>>, gematria |-> 1]],
       [geez |-> <<4656>>,
        data |-> [definition |-> <<>>, transliteration |-> <<97, 88>>,
                  root |-> <<49, 49>>, gematria |-> 111]],
       [geez |-> <<4619, 4619>>,
        data |-> [root |-> <<65, 65>>]],
       [geez |-> <<97, 120>>,
        data |-> [definition |-> <<49, 49>>, gematria |-> 11]],
       [geez |-> <<4619>>,
        data |-> [definition |-> <<120, 120>>, english_definition |-> <<88, 97>>,
                  transliteration |-> <<120, 97>>, root |-> <<97>>]] >>

SmallVerses ==
    << [ref |-> Ref(1, 1), english |-> <<65, 120, 32, 49, 49>>,
        words |-> << <<4656, 4619>>, <<4656>>, <<4656, 4619>> >>],
       [ref |-> Ref(1, 2), english |-> <<120, 97, 32, 97>>,
        words |-> << <<4619, 4619>>, <<4619, 4700>> >>],
       [ref |-> Ref(2, 1), english |-> <<97, 32, 32, 88>>,
        words |-> << >>],
       [ref |-> Ref(2, 2), english |-> <<65, 88, 49>>,
        words |-> << <<4656, 4619>>, <<97, 120>> >>],
       [ref |-> Ref(3, 1), english |-> <<4656, 4619, 32, 97, 120>>,
        words |-> << <<4619>> >>] >>

BulkKey(i) == <<4656, 4700 + i>>

BulkData(i) ==
    LET fields ==
            IF i % 4 = 0 THEN [definition |-> <<97, 120, 32, 49, 49>>]
            ELSE IF i % 4 = 1
            THEN [definition |-> <<97>>, english_definition |-> <<49, 49, 97, 120>>]
            ELSE IF i % 4 = 2 THEN [transliteration |-> <<65, 88, 49, 49>>]
            ELSE [root |-> <<49, 49, 120, 97, 120>>]
    IN  IF i % 7 # 0 THEN fields @@ [gematria |-> 11] ELSE fields

BulkLexicon == [i \in 1..BulkWords |-> [geez |-> BulkKey(i), data |-> BulkData(i)]]

\* a lexicon large enough for the cache: one entry more than the 100 that
\* loadWordData asks for
LargeLexicon ==
    [i \in 1..(CacheMinEntries + 1) |-> [geez |-> BulkKey(i), data |-> BulkData(i)]]

BulkVerseList ==
    [j \in 1..BulkVerses |->
        [ref |-> Ref(1 + (j \div 10), j),
         english |-> IF j % 9 = 0 THEN <<120, 97>> ELSE <<97, 88, 32, 49, 49>>,
         words |-> <<BulkKey(j), BulkKey(j + 1), BulkKey(j)>>]]

\* a lexicon and verses with the characters that are markup in HTML
MarkupWords ==
    << [geez |-> <<4656, 4619, 38>>,
        data |-> [definition |-> <<120, 97, 60>>, transliteration |-> <<60, 97>>,
                  gematria |-> 11]],
       [geez |-> <<4619>>,
        data |-> [definition |-> <<120>>, root |-> <<97>>]] >>

MarkupVerses ==
    << [ref |-> <<49, 58, 60>>, english |-> <<120, 97, 38>>,
        words |-> << <<4656, 4619, 38>> >>],
       [ref |-> Ref(1, 2), english |-> <<97>>, words |-> << >>],
       [ref |-> Ref(1, 3), english |-> <<60, 97, 32, 38, 32, 65, 77, 80>>,
        words |-> << >>] >>

\* shape: "noVerses" is a search_index.json without the member verses,
\* "nullWords" a words.json that holds null
Corpora ==
    << [words |-> SmallWords, verses |-> SmallVerses, shape |-> "ok"],
       [words |-> BulkLexicon, verses |-> BulkVerseList, shape |-> "ok"],
       [words |-> << >>, verses |-> << >>, shape |-> "ok"],
       [words |-> MarkupWords, verses |-> MarkupVerses, shape |-> "ok"],
       [words |-> SmallWords, verses |-> << >>, shape |-> "noVerses"],
       [words |-> << >>, verses |-> SmallVerses, shape |-> "nullWords"],
       [words |-> LargeLexicon, verses |-> << >>, shape |-> "ok"] >>

\* what the user can type
Alphabet == {32, 49, 88, 97, 120, 4619, 4656}

RECURSIVE TextsOfLen(_)
TextsOfLen(n) ==
    IF n = 0 THEN {<<>>}
    ELSE {Append(s, c) : s \in TextsOfLen(n - 1), c \in Alphabet}

Texts == UNION {TextsOfLen(n) : n \in 0..MaxQueryLen}

\* texts with the characters that are markup in HTML
MarkupTexts ==
    {s \in Texts : \A i \in DOMAIN s : s[i] \in {49, 97, 120, 4619, 4656}}
        \cup {<<60, 97>>, <<97, 38, 120>>, <<62, 60>>, <<97, 38>>, <<97, 109, 112>>}

\* the texts typed in a session of several input events
SessionTexts == {<<4656>>, <<49, 49>>, <<97, 88, 32>>}

---------------------------------------------------------------------------
(* The session *)

NoIndex ==
    [loaded |-> FALSE, verses |-> << >>, words |-> << >>, versesOk |-> TRUE,
     wordsOk |-> TRUE]
NoWords == [loaded |-> FALSE, words |-> << >>]

\* .word-modal-body before the first showWordEvolution call
NoBody == [kind |-> "none", word |-> << >>]

\* no analyzeGeezChar call yet
NoAnalysis == [consonant |-> "", translit |-> << >>, order |-> 0]

\* searchIndex = { verses: indexData.verses, words: words, ... }: the fields
\* are copied as they come, verses undefined or words null included
BuiltIndex(words, wordsOk) ==
    [loaded |-> TRUE, verses |-> corpus.verses, words |-> words,
     versesOk |-> corpus.shape # "noVerses", wordsOk |-> wordsOk]

RemoveAt(s, i) == SubSeq(s, 1, i - 1) \o SubSeq(s, i + 1, Len(s))

\* words-priority.json: a part of the lexicon
PriorityWords == SubSeq(corpus.words, 1, (Len(corpus.words) + 1) \div 2)

\* the state of the page once its scripts have run
Loaded ==
    /\ wordData = NoWords
    /\ searchIndex = NoIndex
    /\ modalBuilt = FALSE
    /\ inputValue = <<>>
    /\ debounce = FALSE
    /\ timers = <<>>
    /\ sinceInput = DebounceDelay
    /\ clearTimer = FALSE
    /\ calls = <<>>
    /\ resultsDiv = Blank
    /\ shownFor = <<>>
    /\ uncaught = FALSE
    /\ indexFetches = 0
    /\ builds = 0
    /\ failures = 0
    /\ translitBases = BuildTranslitTable
    /\ tlWord = <<>>
    /\ tlResult = <<>>
    /\ lastQuery = <<>>
    /\ loadingStatus = "idle"
    /\ priorityLoaded = FALSE
    /\ fullLoaded = FALSE
    /\ lexCalls = <<>>
    /\ bgTimers = 0
    /\ wtWord = <<>>
    /\ wtResult = <<>>
    /\ grammarMode = FALSE
    /\ interlinearMode = FALSE
    /\ parallelMode = FALSE
    /\ ilBtnDisabled = FALSE
    /\ modalBody = NoBody
    /\ lastWord = <<>>
    /\ tgDef = <<>>
    /\ tgResult = <<>>
    /\ glWord = <<>>
    /\ glResult = <<>>
    /\ agChar = <<>>
    /\ agResult = NoAnalysis

Init ==
    /\ corpus = Corpora[1]
    /\ Loaded
    /\ geezDefs = NoWords
    /\ idbStore = NoWords
    /\ blocks = <<>>

\* loadWordData: wordData = priority
PriorityLoaded ==
    /\ ~wordData.loaded
    /\ wordData' = [loaded |-> TRUE, words |-> PriorityWords]
    /\ priorityLoaded' = TRUE
    /\ loadingStatus' = "priority"
    /\ UNCHANGED <<corpus, searchIndex, modalBuilt, inputValue, debounce, timers,
                   sinceInput, clearTimer, calls, resultsDiv, shownFor, uncaught,
                   loadLog, translitVars,
                   lastQuery, fullLoaded, lexCalls, bgTimers, lookupVars, viewVars, modalVars, glossVars>>

\* loadFullLexicon: wordData = data
WordDataLoaded ==
    /\ corpus.shape # "nullWords"
    /\ wordData # [loaded |-> TRUE, words |-> corpus.words]
    /\ wordData' = [loaded |-> TRUE, words |-> corpus.words]
    /\ fullLoaded' = TRUE
    /\ loadingStatus' = "cached"
    /\ UNCHANGED <<corpus, searchIndex, modalBuilt, inputValue, debounce, timers,
                   sinceInput, clearTimer, calls, resultsDiv, shownFor, uncaught,
                   loadLog, translitVars,
                   lastQuery, priorityLoaded, lexCalls, bgTimers, lookupVars, viewVars, modalVars, glossVars>>

\* mutant: loadSearchIndex without its first line
HaveIndexNever == FALSE

\* loadSearchIndex: if (searchIndex) return searchIndex;
HaveIndex == searchIndex.loaded

\* loadSearchIndex past its first line: fetch(BASE_PATH + 'search_index.json').
\* Bounded: at most MaxCalls loads wait at a time, MaxLoads start in a session.
StartLoad(caller, query) ==
    /\ Len(calls) < MaxCalls
    /\ indexFetches < MaxLoads
    /\ calls' = Append(calls, [caller |-> caller, query |-> query, pc |-> "index"])
    /\ indexFetches' = indexFetches + 1

\* openSearch: builds the modal, arms the 100 ms timer, preloads the index.
\* Bounded: it is not called again while its timer is pending.
OpenSearch ==
    /\ ~clearTimer
    /\ modalBuilt' = TRUE
    /\ clearTimer' = TRUE
    /\ IF HaveIndex
       THEN UNCHANGED <<calls, indexFetches>>
       ELSE StartLoad("open", <<>>)
    /\ UNCHANGED <<corpus, wordData, searchIndex, inputValue, debounce, timers,
                   sinceInput, resultsDiv, shownFor, uncaught, builds, failures,
                   translitVars,
                   lastQuery, lexVars, lookupVars, viewVars, modalVars, glossVars>>

\* the function openSearch hands to setTimeout(..., 100)
ClearTimerFire ==
    /\ clearTimer
    /\ clearTimer' = FALSE
    /\ inputValue' = <<>>
    /\ resultsDiv' = Blank
    /\ shownFor' = <<>>
    /\ UNCHANGED <<corpus, wordData, searchIndex, modalBuilt, debounce, timers,
                   sinceInput, calls, uncaught, loadLog, translitVars,
                   lastQuery, lexVars, lookupVars, viewVars, modalVars, glossVars>>

\* mutant: the listener arms a timer and leaves the pending one
RearmKeepsOld == Append(timers, DebounceDelay)

\* clearTimeout(debounce); debounce = setTimeout(..., 200)
Rearm ==
    Append(IF debounce THEN SubSeq(timers, 1, Len(timers) - 1) ELSE timers,
           DebounceDelay)

\* the input listener
InputEvent(v) ==
    /\ modalBuilt
    /\ v # inputValue
    /\ inputValue' = v
    /\ timers' = Rearm
    /\ debounce' = TRUE
    /\ sinceInput' = 0
    /\ UNCHANGED <<corpus, wordData, searchIndex, modalBuilt, clearTimer, calls,
                   resultsDiv, shownFor, uncaught, loadLog, translitVars,
                   lastQuery, lexVars, lookupVars, viewVars, modalVars, glossVars>>

\* TimeStep ms pass
Tick ==
    /\ timers' = [i \in DOMAIN timers |->
                     IF timers[i] > TimeStep THEN timers[i] - TimeStep ELSE 0]
    /\ sinceInput' = Min(sinceInput + TimeStep, DebounceDelay)
    /\ UNCHANGED <<corpus, wordData, searchIndex, modalBuilt, inputValue, debounce,
                   clearTimer, calls, resultsDiv, shownFor, uncaught, loadLog,
                   translitVars,
                   lastQuery, lexVars, lookupVars, viewVars, modalVars, glossVars>>

\* resultsDiv.innerHTML = ..., or the exception that leaves performSearch
Write(panel, query) ==
    IF panel.kind = "Throws"
    THEN /\ uncaught' = TRUE
         /\ UNCHANGED <<resultsDiv, shownFor>>
    ELSE /\ resultsDiv' = panel
         /\ shownFor' = query
         /\ UNCHANGED uncaught

\* performSearch(query) up to the point where it waits for the index
PerformSearch(query) ==
    /\ lastQuery' = query
    /\ IF TooShort(query)
       THEN /\ Write(TooShortHint, query)
            /\ UNCHANGED <<searchIndex, calls, loadLog>>
       ELSE IF HaveIndex
       THEN /\ Write(Evaluate(searchIndex, query), query)
            /\ UNCHANGED <<searchIndex, calls, loadLog>>
       ELSE /\ StartLoad("search", query)
            /\ UNCHANGED <<searchIndex, resultsDiv, shownFor, uncaught, builds, failures>>

\* a timer of the input listener fires: performSearch(input.value.trim())
DebounceFire ==
    \E i \in DOMAIN timers :
        /\ timers[i] = 0
        /\ timers' = RemoveAt(timers, i)
        /\ debounce' = (debounce /\ i # Len(timers))
        /\ PerformSearch(Trim(inputValue))
        /\ UNCHANGED <<corpus, wordData, modalBuilt, inputValue, sinceInput,
                       clearTimer, translitVars,
                   lexVars, lookupVars, viewVars, modalVars, glossVars>>

\* loadSearchIndex returns to its caller: performSearch goes on, openSearch ignores it
Return(call, index) ==
    IF call.caller = "search"
    THEN Write(IF index.loaded THEN Evaluate(index, call.query) ELSE Unavailable,
               call.query)
    ELSE UNCHANGED <<resultsDiv, shownFor, uncaught>>

\* mutant: a failed load hands the session's index to its caller
LoadFailsQuietly(i) ==
    /\ calls' = RemoveAt(calls, i)
    /\ searchIndex' = searchIndex
    /\ failures' = failures + 1
    /\ UNCHANGED <<indexFetches, builds>>
    /\ Return(calls[i], searchIndex)

\* loadSearchIndex: catch (e) { ...; return null; }
LoadFails(i) ==
    /\ calls' = RemoveAt(calls, i)
    /\ searchIndex' = searchIndex
    /\ failures' = failures + 1
    /\ UNCHANGED <<indexFetches, builds>>
    /\ Return(calls[i], NoIndex)

\* loadSearchIndex: searchIndex = {...}; return searchIndex;
LoadBuilds(i, words, wordsOk) ==
    /\ calls' = RemoveAt(calls, i)
    /\ searchIndex' = BuiltIndex(words, wordsOk)
    /\ builds' = builds + 1
    /\ UNCHANGED <<indexFetches, failures>>
    /\ Return(calls[i], searchIndex')

\* loadSearchIndex: the response for search_index.json arrives (or the fetch fails)
IndexResponse(i, ok) ==
    /\ i \in DOMAIN calls
    /\ calls[i].pc = "index"
    /\ IF ~ok
       THEN LoadFails(i)
       ELSE IF wordData.loaded
       THEN LoadBuilds(i, wordData.words, TRUE)
       ELSE /\ calls' = [calls EXCEPT ![i].pc = "words"]
            /\ UNCHANGED <<searchIndex, resultsDiv, shownFor, uncaught, loadLog>>
    /\ UNCHANGED <<corpus, wordData, modalBuilt, inputValue, debounce, timers,
                   sinceInput, clearTimer, translitVars,
                   lastQuery, lexVars, lookupVars, viewVars, modalVars, glossVars>>

\* loadSearchIndex: the response for words.json arrives (or the fetch fails)
WordsResponse(i, ok) ==
    /\ i \in DOMAIN calls
    /\ calls[i].pc = "words"
    /\ IF ~ok
       THEN LoadFails(i)
       ELSE LoadBuilds(i, corpus.words, corpus.shape # "nullWords")
    /\ UNCHANGED <<corpus, wordData, modalBuilt, inputValue, debounce, timers,
                   sinceInput, clearTimer, translitVars,
                   lastQuery, lexVars, lookupVars, viewVars, modalVars, glossVars>>

Next ==
    \/ PriorityLoaded
    \/ WordDataLoaded
    \/ OpenSearch
    \/ ClearTimerFire
    \/ \E v \in SessionTexts : InputEvent(v)
    \/ Tick
    \/ DebounceFire
    \/ \E i \in 1..MaxCalls, ok \in BOOLEAN : IndexResponse(i, ok)
    \/ \E i \in 1..MaxCalls, ok \in BOOLEAN : WordsResponse(i, ok)

Spec == Init /\ [][Next]_vars

\* the modal is open, a text has been typed and the 200 ms have passed; the
\* index is already built, or not (openSearch's preload still waiting, or failed)
Typed(texts) ==
    /\ wordData \in IF corpus.shape = "nullWords" THEN {NoWords}
                    ELSE {NoWords, [loaded |-> TRUE, words |-> corpus.words]}
    /\ searchIndex \in {NoIndex, BuiltIndex(corpus.words, corpus.shape # "nullWords")}
    /\ modalBuilt = TRUE
    /\ inputValue \in texts
    /\ debounce = TRUE
    /\ timers = <<0>>
    /\ sinceInput = DebounceDelay
    /\ clearTimer = FALSE
    /\ calls \in IF searchIndex.loaded THEN {<<>>}
                ELSE {<<>>, <<[caller |-> "open", query |-> <<>>, pc |-> "index"]>>}
    /\ resultsDiv = Blank
    /\ shownFor = <<>>
    /\ uncaught = FALSE
    /\ indexFetches = Len(calls)
    /\ builds = IF searchIndex.loaded THEN 1 ELSE 0
    /\ failures = 0
    /\ translitBases = BuildTranslitTable
    /\ tlWord = <<>>
    /\ tlResult = <<>>
    /\ lastQuery = <<>>
    /\ loadingStatus = IF wordData.loaded THEN "cached" ELSE "idle"
    /\ priorityLoaded = FALSE
    /\ fullLoaded = wordData.loaded
    /\ lexCalls = <<>>
    /\ bgTimers = 0
    /\ geezDefs = NoWords
    /\ idbStore = NoWords
    /\ wtWord = <<>>
    /\ wtResult = <<>>
    /\ grammarMode = FALSE
    /\ interlinearMode = FALSE
    /\ parallelMode = FALSE
    /\ ilBtnDisabled = FALSE
    /\ modalBody = NoBody
    /\ lastWord = <<>>
    /\ tgDef = <<>>
    /\ tgResult = <<>>
    /\ glWord = <<>>
    /\ glResult = <<>>
    /\ agChar = <<>>
    /\ agResult = NoAnalysis
    /\ blocks = <<>>

(* One query evaluation for every text of Texts, over the well-formed      *)
(* corpora.                                                                *)
InitQuery ==
    /\ \E c \in 1..3 : corpus = Corpora[c]
    /\ Typed(Texts)

NextQuery ==
    \/ DebounceFire
    \/ \E i \in 1..MaxCalls, ok \in BOOLEAN : IndexResponse(i, ok)
    \/ \E i \in 1..MaxCalls, ok \in BOOLEAN : WordsResponse(i, ok)

SpecQuery == InitQuery /\ [][NextQuery]_vars

(* The same over the documents with markup characters and the malformed    *)
(* ones.                                                                   *)
InitDocs ==
    /\ \E c \in 4..6 : corpus = Corpora[c]
    /\ Typed(MarkupTexts)

SpecDocs == InitDocs /\ [][NextQuery]_vars

(* The transliteration engine alone: transliterate is called with every    *)
(* word of GeezWords.                                                      *)
TransliterateCall(word) ==
    /\ tlWord' = word
    /\ tlResult' = Transliterate(word)
    /\ UNCHANGED <<corpus, wordData, searchIndex, modalBuilt, inputValue, debounce,
                   timers, sinceInput, clearTimer, calls, resultsDiv, shownFor,
                   uncaught, loadLog, translitBases, lastQuery, lexVars, lookupVars,
                   viewVars, modalVars, glossVars>>

InitTranslit ==
    /\ corpus = Corpora[3]
    /\ Loaded
    /\ geezDefs = NoWords
    /\ idbStore = NoWords
    /\ blocks = <<>>

NextTranslit == \E word \in GeezWords : TransliterateCall(word)

SpecTranslit == InitTranslit /\ [][NextTranslit]_vars

---------------------------------------------------------------------------
(* getWordTranslit (js/interlinear.js) over the dictionaries that the page *)
(* holds at the time of the call: geezDefs and wordData, each still null,  *)
(* or loaded.                                                              *)

\* geez_definitions.json: an entry with a transliteration for a word that
\* wordData has one for too, one without the member, one with an empty
\* one, one for a word whose wordData entry has none, and one for a word that
\* wordData does not have
GeezDefinitions ==
    << [geez |-> <<4656, 4619>>,
        data |-> [transliteration |-> <<115, 97, 108>>, definition |-> <<120>>]],
       [geez |-> <<4656>>, data |-> [definition |-> <<120, 97>>]],
       [geez |-> <<4619>>, data |-> [transliteration |-> << >>]],
       [geez |-> <<4619, 4619>>, data |-> [transliteration |-> <<108, 97>>]],
       [geez |-> <<4613>>, data |-> [english |-> <<97>>]] >>

\* dict && dict[word]: the entry of the word in a loaded dictionary
HasEntry(dict, word) ==
    dict.loaded /\ \E i \in DOMAIN dict.words : dict.words[i].geez = word

\* dict[word]
EntryOf(dict, word) ==
    dict.words[CHOOSE i \in DOMAIN dict.words : dict.words[i].geez = word].data

\* mutant: the stored value is returned without the test "if (translit)"
GetWordTranslitUntested(word) ==
    IF HasEntry(geezDefs, word)
    THEN Field(EntryOf(geezDefs, word), "transliteration")
    ELSE IF HasEntry(wordData, word)
    THEN Field(EntryOf(wordData, word), "transliteration")
    ELSE Transliterate(word)

\* getWordTranslit(geezWord); an absent or empty transliteration is falsy
GetWordTranslit(word) ==
    IF /\ HasEntry(geezDefs, word)
       /\ Field(EntryOf(geezDefs, word), "transliteration") # << >>
    THEN EntryOf(geezDefs, word).transliteration
    ELSE IF /\ HasEntry(wordData, word)
            /\ Field(EntryOf(wordData, word), "transliteration") # << >>
    THEN EntryOf(wordData, word).transliteration
    ELSE Transliterate(word)

\* the interlinear view asks for the transliteration of a word
GetWordTranslitCall(word) ==
    /\ wtWord' = word
    /\ wtResult' = GetWordTranslit(word)
    /\ UNCHANGED <<corpus, wordData, searchVars, translitVars, lexVars, geezDefs,
                   viewVars, modalVars, glossVars>>

\* loadGeezDefinitions: the response is there and ok
GeezDefsLoaded ==
    /\ ~geezDefs.loaded
    /\ geezDefs' = [loaded |-> TRUE, words |-> GeezDefinitions]
    /\ UNCHANGED <<corpus, wordData, searchVars, translitVars, lexVars, wtWord,
                   wtResult, viewVars, modalVars, glossVars>>

\* the words asked for: those of the dictionaries and others as short
LookupWords == {word \in GeezWords : Len(word) <= 2} \cup {<<4619, 4656, 4619>>}

NextLookup ==
    \/ \E word \in LookupWords : GetWordTranslitCall(word)
    \/ GeezDefsLoaded
    \/ PriorityLoaded
    \/ WordDataLoaded

SpecLookup == Init /\ [][NextLookup]_vars

---------------------------------------------------------------------------
(* truncateGloss and getWordGloss (js/interlinear.js): the gloss shown      *)
(* under a word of the interlinear view.  Strings are sequences of UTF-16  *)
(* code units.                                                             *)

\* the alternatives of the prefix pattern, in its order: "and + ", "from + ",
\* "in/by + ", "for/to + ", "of/which + ", "not + "
Particles ==
    << <<97, 110, 100, 32, 43, 32>>,
       <<102, 114, 111, 109, 32, 43, 32>>,
       <<105, 110, 47, 98, 121, 32, 43, 32>>,
       <<102, 111, 114, 47, 116, 111, 32, 43, 32>>,
       <<111, 102, 47, 119, 104, 105, 99, 104, 32, 43, 32>>,
       <<110, 111, 116, 32, 43, 32>> >>

\* ',' and ';'
Separators == {44, 59}

\* '---'
Placeholder == <<45, 45, 45>>

\* '...'
Ellipsis == <<46, 46, 46>>

\* String.prototype.startsWith
StartsWith(s, p) == Len(p) <= Len(s) /\ SubSeq(s, 1, Len(p)) = p

\* one of the alternatives matches at the start of s
StartsWithParticle(s) == \E n \in DOMAIN Particles : StartsWith(s, Particles[n])

\* def.replace(/^(and \+ |...|not \+ )+/g, ''): the group is repeated as long
\* as an alternative matches; no alternative is the start of another one
RECURSIVE StripParticles(_)
StripParticles(s) ==
    IF StartsWithParticle(s)
    THEN LET n == CHOOSE n \in DOMAIN Particles : StartsWith(s, Particles[n])
         IN  StripParticles(SubSeq(s, Len(Particles[n]) + 1, Len(s)))
    ELSE s

\* s.split(/[,;]/)[0]
FirstPiece(s) ==
    IF \E i \in DOMAIN s : s[i] \in Separators
    THEN LET i == CHOOSE i \in DOMAIN s :
                      /\ s[i] \in Separators
                      /\ \A j \in 1..(i - 1) : s[j] \notin Separators
         IN  SubSeq(s, 1, i - 1)
    ELSE s

\* mutant: the whole of the first 25 characters is kept before '...'
TruncateGlossLong(def) ==
    IF def = << >> THEN Placeholder
    ELSE LET clean == Trim(FirstPiece(StripParticles(def)))
             cut == IF Len(clean) > GlossMax
                    THEN SubSeq(clean, 1, GlossMax) \o Ellipsis
                    ELSE clean
         IN  IF cut = << >> THEN Placeholder ELSE cut

\* truncateGloss(def), def a string
TruncateGloss(def) ==
    IF def = << >> THEN Placeholder
    ELSE LET clean == Trim(FirstPiece(StripParticles(def)))
             cut == IF Len(clean) > GlossMax
                    THEN SubSeq(clean, 1, GlossKeep) \o Ellipsis
                    ELSE clean
         IN  IF cut = << >> THEN Placeholder ELSE cut

\* n letters, no two neighbours alike
Letters(n) == [i \in 1..n |-> 97 + ((i - 1) % 26)]

\* what follows the particles: nothing, short and long phrases around the
\* limit of 25, phrases with blanks around and inside, and phrases that
\* look like a particle without being one
GlossPhrases ==
    {Letters(n) : n \in {0, 1, GlossKeep, GlossMax - 1, GlossMax, GlossMax + 1, GlossMax + 5}}
    \cup { <<32>> \o Letters(GlossMax) \o <<32, 9>>,
           <<32, 32>> \o Letters(GlossMax + 1),
           Letters(GlossKeep - 2) \o <<32, 32, 32, 32>> \o Letters(3),
           <<32, 32>>,
           Placeholder,
           <<65, 110, 100, 32, 43, 32, 120>>,
           <<32>> \o Particles[1] \o <<120>>,
           <<97, 110, 100, 32, 43, 120>> }

\* what follows the phrase: nothing, or a separator and more text
GlossTails ==
    { << >>, <<44, 32, 98>>, <<59, 98>>, <<32, 59, 32, 98, 44, 99>> }

\* runs of up to n particles
RECURSIVE ParticleRuns(_)
ParticleRuns(n) ==
    IF n = 0 THEN { << >> }
    ELSE ParticleRuns(n - 1) \cup
         {Particles[k] \o run : k \in DOMAIN Particles, run \in ParticleRuns(n - 1)}

\* the definitions truncateGloss is called with
GlossTexts ==
    {run \o phrase \o tail :
        run \in ParticleRuns(MaxParticles), phrase \in GlossPhrases, tail \in GlossTails}

\* renderInterlinear asks for the gloss of a definition; the function keeps
\* no state, one call is looked at
TruncateGlossCall(def) ==
    /\ tgResult = << >>
    /\ tgDef' = def
    /\ tgResult' = TruncateGloss(def)
    /\ UNCHANGED <<corpus, wordData, searchVars, translitVars, lexVars, lookupVars,
                   viewVars, modalVars, glWord, glResult, agChar, agResult>>

NextTruncate == \E def \in GlossTexts : TruncateGlossCall(def)

SpecTruncate == Init /\ [][NextTruncate]_vars

---------------------------------------------------------------------------
\* a || b on strings: the empty string is falsy
Either(a, b) == IF a # << >> THEN a ELSE b

\* entry.definition || entry.english || ''
GlossSource(entry) == Either(Field(entry, "definition"), Field(entry, "english"))

\* getWordGloss(geezWord): an entry of geezDefs answers, whatever it holds
GetWordGloss(word) ==
    IF HasEntry(geezDefs, word)
    THEN TruncateGloss(GlossSource(EntryOf(geezDefs, word)))
    ELSE IF HasEntry(wordData, word)
    THEN TruncateGloss(GlossSource(EntryOf(wordData, word)))
    ELSE Placeholder

\* the interlinear view asks for the gloss of a word
GetWordGlossCall(word) ==
    /\ glWord' = word
    /\ glResult' = GetWordGloss(word)
    /\ UNCHANGED <<corpus, wordData, searchVars, translitVars, lexVars, lookupVars,
                   viewVars, modalVars, tgDef, tgResult, agChar, agResult>>

NextGloss ==
    \/ \E word \in LookupWords : GetWordGlossCall(word)
    \/ GeezDefsLoaded
    \/ PriorityLoaded
    \/ WordDataLoaded

SpecGloss == Init /\ [][NextGloss]_vars

---------------------------------------------------------------------------
(* analyzeGeezChar (js/interlinear.js) and its table GEEZ_CONSONANTS.       *)

\* GEEZ_CONSONANTS, its rows in the order of Object.entries
GeezConsonants ==
    << [name |-> "Hoy", translit |-> <<104>>, base |-> 4608],
       [name |-> "Lawe", translit |-> <<108>>, base |-> 4616],
       [name |-> "Hawt", translit |-> <<72>>, base |-> 4624],
       [name |-> "May", translit |-> <<109>>, base |-> 4632],
       [name |-> "Sewt", translit |-> <<115>>, base |-> 4640],
       [name |-> "Rees", translit |-> <<114>>, base |-> 4648],
       [name |-> "Sat", translit |-> <<115>>, base |-> 4656],
       [name |-> "Shawt", translit |-> <<115, 104>>, base |-> 4664],
       [name |-> "Qaf", translit |-> <<113>>, base |-> 4672],
       [name |-> "Bet", translit |-> <<98>>, base |-> 4704],
       [name |-> "Taw", translit |-> <<116>>, base |-> 4712],
       [name |-> "Harm", translit |-> <<120>>, base |-> 4720],
       [name |-> "Nahas", translit |-> <<110>>, base |-> 4728],
       [name |-> "Ayn", translit |-> <<39>>, base |-> 4736],
       [name |-> "Nahas", translit |-> <<110>>, base |-> 4752],
       [name |-> "Nyahas", translit |-> <<110, 121>>, base |-> 4760],
       [name |-> "Alef", translit |-> <<39>>, base |-> 4768],
       [name |-> "Kaf", translit |-> <<107>>, base |-> 4776],
       [name |-> "Wawe", translit |-> <<119>>, base |-> 4808],
       [name |-> "Ayin", translit |-> <<39>>, base |-> 4816],
       [name |-> "Zay", translit |-> <<122>>, base |-> 4824],
       [name |-> "Zhe", translit |-> <<122, 104>>, base |-> 4832],
       [name |-> "Yaman", translit |-> <<121>>, base |-> 4840],
       [name |-> "Dent", translit |-> <<100>>, base |-> 4848],
       [name |-> "Dhi", translit |-> <<100, 100>>, base |-> 4856],
       [name |-> "Jee", translit |-> <<106>>, base |-> 4864],
       [name |-> "Gemel", translit |-> <<103>>, base |-> 4872],
       [name |-> "Teyt", translit |-> <<84>>, base |-> 4896],
       [name |-> "Cheha", translit |-> <<99, 104>>, base |-> 4904],
       [name |-> "Pharyngeal T", translit |-> <<80>>, base |-> 4912],
       [name |-> "Tsadey", translit |-> <<116, 115>>, base |-> 4920],
       [name |-> "Tsappa", translit |-> <<116, 115, 39>>, base |-> 4928],
       [name |-> "Af", translit |-> <<102>>, base |-> 4936],
       [name |-> "Psa", translit |-> <<112>>, base |-> 4944] >>

\* analyzeGeezChar(char): the first row that the code point lies in, or
\* 'Unknown'
AnalyzeGeezChar(char) ==
    LET codePoint == CodePointAt(char, 1)
        Hit(r) == codePoint - GeezConsonants[r].base >= 0
                  /\ codePoint - GeezConsonants[r].base < 8
    IN  IF \E r \in DOMAIN GeezConsonants : Hit(r)
        THEN LET r == CHOOSE r \in DOMAIN GeezConsonants :
                          Hit(r) /\ \A q \in 1..(r - 1) : ~Hit(q)
             IN  [consonant |-> GeezConsonants[r].name,
                  translit |-> GeezConsonants[r].translit,
                  order |-> Min(codePoint - GeezConsonants[r].base + 1, 7)]
        ELSE [consonant |-> "Unknown", translit |-> <<63>>, order |-> 0]

\* the grammar popup analyses a character
AnalyzeGeezCharCall(char) ==
    /\ agChar' = char
    /\ agResult' = AnalyzeGeezChar(char)
    /\ UNCHANGED <<corpus, wordData, searchVars, translitVars, lexVars, lookupVars,
                   viewVars, modalVars, tgDef, tgResult, glWord, glResult>>

\* the characters analysed: the Ethiopic block, its two neighbours, a space,
\* a Latin letter, and U+1F9E0 as its two surrogates
AnalysedChars ==
    {<<cp>> : cp \in (GeezLo - 1)..(GeezHi + 1)} \cup {<<32>>, <<97>>, <<55358, 56800>>}

NextAnalyse == \E char \in AnalysedChars : AnalyzeGeezCharCall(char)

SpecAnalyse == Init /\ [][NextAnalyse]_vars

---------------------------------------------------------------------------
(* The lexicon loader and the word modal of interlinear.js.  Every call of *)
(* loadWordData, loadFullLexicon or the background load that is waiting    *)
(* for a response is an entry of lexCalls: pc names the request it waits   *)
(* for, caller who awaits it (initWordModal, showWordEvolution, or the     *)
(* timer of the background load), word the argument of showWordEvolution,  *)
(* direct whether showWordEvolution called loadFullLexicon itself.  A      *)
(* fetch and the reading of its body are one response: nothing is assigned *)
(* between the two awaits.  A promise that is already settled is awaited   *)
(* within the step: no other task runs before the continuation.            *)

\* everything the loader and the modal leave alone
lexOther == <<corpus, searchVars, translitVars, lookupVars, viewVars, glossVars>>

\* words.json, and the copy of it that saveToIndexedDB keeps
FullLexicon == [loaded |-> TRUE, words |-> corpus.words]

\* words-priority.json
PriorityLexicon == [loaded |-> TRUE, words |-> PriorityWords]

\* a call as it starts
LexCall(caller, word) ==
    [pc |-> "start", caller |-> caller, word |-> word, direct |-> FALSE]

\* .word-modal-body with one of the loading messages
Loading(word, status) ==
    [kind |-> "loading", word |-> word,
     message |-> IF status = "cached" THEN "Looking up word..."
                 ELSE IF status = "priority" THEN "Loading priority words..."
                 ELSE "Loading word database..."]

\* updateLoadingIndicator, as loadFullLexicon calls it: whoever called, the
\* body of the modal is replaced by the message
LoadingIndicator ==
    [kind |-> "loading", word |-> << >>, message |-> "Loading complete Ge'ez lexicon..."]

\* the promise of the call is fulfilled, the lexicon being data, fullLoaded
\* full and loadingStatus status, the other waiting calls rest.  For
\* showWordEvolution: the rest of its try block; its message "Loading
\* complete lexicon for" is replaced at once by that of loadFullLexicon
Returned(call, data, full, status, rest) ==
    IF call.caller # "modal"
    THEN /\ lexCalls' = rest
         /\ loadingStatus' = status
         /\ UNCHANGED modalBody
    ELSE IF HasEntry(data, call.word)
    THEN /\ modalBody' = [kind |-> "details", word |-> call.word]
         /\ lexCalls' = rest
         /\ loadingStatus' = status
    ELSE IF ~call.direct /\ ~full
    THEN /\ modalBody' = LoadingIndicator
         /\ loadingStatus' = "full"
         /\ lexCalls' = Append(rest, [call EXCEPT !.pc = "full", !.direct = TRUE])
    ELSE /\ modalBody' = [kind |-> "notFound", word |-> call.word]
         /\ lexCalls' = rest
         /\ loadingStatus' = status

\* mutant: showWordEvolution without its catch block
ThrewUncaught(call, rest) ==
    /\ lexCalls' = rest
    /\ UNCHANGED modalBody

\* the promise of the call is rejected: initWordModal ignores it,
\* showWordEvolution shows the error
Threw(call, rest) ==
    /\ lexCalls' = rest
    /\ modalBody' = IF call.caller = "modal"
                    THEN [kind |-> "error", word |-> call.word]
                    ELSE modalBody

\* loadWordData from "Load priority words first" on, the other waiting calls
\* being rest and body what the modal shows while the call waits: the call
\* waits for words-priority.json, or falls back to loadFullLexicon, or
\* returns wordData
Proceed(call, rest, body) ==
    IF ~priorityLoaded
    THEN /\ loadingStatus' = "priority"
         /\ lexCalls' = Append(rest, [call EXCEPT !.pc = "priority"])
         /\ modalBody' = body
    ELSE IF ~wordData.loaded
    THEN /\ loadingStatus' = "full"
         /\ lexCalls' = Append(rest, [call EXCEPT !.pc = "full"])
         /\ modalBody' = LoadingIndicator
    ELSE Returned(call, wordData, fullLoaded, loadingStatus, rest)

\* loadWordData() up to its first await
LoadWordData(call, body) ==
    IF fullLoaded /\ wordData.loaded
    THEN Returned(call, wordData, fullLoaded, loadingStatus, lexCalls)
    ELSE IF loadingStatus = "idle"
    THEN /\ loadingStatus' = "checking"
         /\ lexCalls' = Append(lexCalls, [call EXCEPT !.pc = "idb"])
         /\ modalBody' = body
    ELSE Proceed(call, lexCalls, body)

\* initWordModal calls loadWordData()
LoadWordDataCall ==
    /\ Len(lexCalls) < MaxLexCalls
    /\ LoadWordData(LexCall("init", << >>), modalBody)
    /\ UNCHANGED <<wordData, priorityLoaded, fullLoaded, bgTimers, lastWord, idbStore,
                   lexOther>>

\* showWordEvolution(geez) on a page with the modal, up to its first await
ShowWordEvolution(word) ==
    /\ Len(lexCalls) < MaxLexCalls
    /\ lastWord' = word
    /\ IF HasEntry(wordData, word)
       THEN /\ modalBody' = [kind |-> "details", word |-> word]
            /\ UNCHANGED <<loadingStatus, lexCalls>>
       ELSE LoadWordData(LexCall("modal", word), Loading(word, loadingStatus))
    /\ UNCHANGED <<wordData, priorityLoaded, fullLoaded, bgTimers, idbStore, lexOther>>

\* getFromIndexedDB('fullLexicon') as loadWordData takes it: a lexicon of more
\* than 100 entries
CacheHit == idbStore.loaded /\ Len(idbStore.words) > CacheMinEntries

\* the two getFromIndexedDB requests of call i settle.  "read": the store
\* answers with what it holds; "unavailable": openDatabase fails, which
\* getFromIndexedDB turns into null; "failed": a get request fails, its
\* promise is returned without await, so the rejection passes the catch of
\* getFromIndexedDB and loadWordData throws
IdbResponse(i, outcome) ==
    /\ lexCalls[i].pc = "idb"
    /\ IF outcome = "failed"
       THEN /\ Threw(lexCalls[i], RemoveAt(lexCalls, i))
            /\ UNCHANGED <<wordData, fullLoaded, priorityLoaded, loadingStatus>>
       ELSE IF outcome = "read" /\ CacheHit
       THEN /\ wordData' = idbStore
            /\ fullLoaded' = TRUE
            /\ priorityLoaded' = TRUE
            /\ Returned(lexCalls[i], idbStore, TRUE, "cached", RemoveAt(lexCalls, i))
       ELSE IF wordData.loaded
       THEN /\ Returned(lexCalls[i], wordData, fullLoaded, loadingStatus,
                        RemoveAt(lexCalls, i))
            /\ UNCHANGED <<wordData, fullLoaded, priorityLoaded>>
       ELSE /\ Proceed(lexCalls[i], RemoveAt(lexCalls, i), modalBody)
            /\ UNCHANGED <<wordData, fullLoaded, priorityLoaded>>
    /\ UNCHANGED <<bgTimers, lastWord, idbStore, lexOther>>

\* the fetch of words-priority.json of call i ends; not ok: a status outside
\* 200..299, or the fetch or the parsing threw (caught)
PriorityResponse(i, ok) ==
    /\ lexCalls[i].pc = "priority"
    /\ IF ok
       THEN /\ wordData' = PriorityLexicon
            /\ priorityLoaded' = TRUE
            /\ bgTimers' = bgTimers + 1
            /\ Returned(lexCalls[i], PriorityLexicon, fullLoaded, loadingStatus,
                        RemoveAt(lexCalls, i))
            /\ UNCHANGED fullLoaded
       ELSE IF ~wordData.loaded
       THEN /\ loadingStatus' = "full"
            /\ lexCalls' = [lexCalls EXCEPT ![i].pc = "full"]
            /\ modalBody' = LoadingIndicator
            /\ UNCHANGED <<wordData, priorityLoaded, fullLoaded, bgTimers>>
       ELSE /\ Returned(lexCalls[i], wordData, fullLoaded, loadingStatus,
                        RemoveAt(lexCalls, i))
            /\ UNCHANGED <<wordData, priorityLoaded, fullLoaded, bgTimers>>
    /\ UNCHANGED <<lastWord, idbStore, lexOther>>

\* saveToIndexedDB('fullLexicon', data): the value is put, or the write fails
\* (the failure is logged)
SaveToIndexedDB(data, written) == idbStore' = IF written THEN data ELSE idbStore

\* loadFullLexicon: the fetch of words.json of call i ends; not ok: the call
\* throws to its caller
FullResponse(i, ok, written) ==
    /\ lexCalls[i].pc = "full"
    /\ IF ok
       THEN /\ wordData' = FullLexicon
            /\ fullLoaded' = TRUE
            /\ SaveToIndexedDB(FullLexicon, written)
            /\ Returned(lexCalls[i], FullLexicon, TRUE, "cached", RemoveAt(lexCalls, i))
       ELSE /\ Threw(lexCalls[i], RemoveAt(lexCalls, i))
            /\ UNCHANGED <<wordData, fullLoaded, loadingStatus, idbStore>>
    /\ UNCHANGED <<priorityLoaded, bgTimers, lastWord, lexOther>>

\* the timer of loadFullLexiconInBackground fires
BackgroundFire ==
    /\ bgTimers > 0
    /\ bgTimers' = bgTimers - 1
    /\ IF fullLoaded
       THEN UNCHANGED <<loadingStatus, lexCalls>>
       ELSE /\ loadingStatus' = "full"
            /\ lexCalls' = Append(lexCalls, [LexCall("timer", << >>) EXCEPT
                                                !.pc = "background"])
    /\ UNCHANGED <<wordData, priorityLoaded, fullLoaded, modalVars, lexOther>>

\* the background fetch of words.json ends
BackgroundResponse(i, ok, written) ==
    /\ lexCalls[i].pc = "background"
    /\ lexCalls' = RemoveAt(lexCalls, i)
    /\ IF ok
       THEN /\ wordData' = FullLexicon
            /\ fullLoaded' = TRUE
            /\ loadingStatus' = "cached"
            /\ SaveToIndexedDB(FullLexicon, written)
       ELSE UNCHANGED <<wordData, fullLoaded, loadingStatus, idbStore>>
    /\ UNCHANGED <<priorityLoaded, bgTimers, modalBody, lastWord, lexOther>>

\* the words clicked: one of the priority words, one of the others, one that
\* words.json does not have
ModalWords == {BulkKey(1), BulkKey(CacheMinEntries + 1), <<4613>>}

\* a page after its scripts have run; the cache is empty, or holds the
\* lexicon, or one of 100 entries
InitLexicon ==
    /\ corpus = Corpora[7]
    /\ Loaded
    /\ geezDefs = NoWords
    /\ blocks = << >>
    /\ idbStore \in {NoWords, FullLexicon,
                     [loaded |-> TRUE, words |-> SubSeq(corpus.words, 1, CacheMinEntries)]}

NextLexicon ==
    \/ LoadWordDataCall
    \/ \E word \in ModalWords : ShowWordEvolution(word)
    \/ BackgroundFire
    \/ \E i \in DOMAIN lexCalls, outcome \in {"read", "unavailable", "failed"} :
          IdbResponse(i, outcome)
    \/ \E i \in DOMAIN lexCalls, ok \in BOOLEAN : PriorityResponse(i, ok)
    \/ \E i \in DOMAIN lexCalls, ok \in BOOLEAN, written \in BOOLEAN :
          FullResponse(i, ok, written)
    \/ \E i \in DOMAIN lexCalls, ok \in BOOLEAN, written \in BOOLEAN :
          BackgroundResponse(i, ok, written)

SpecLexicon == InitLexicon /\ [][NextLexicon]_vars

(* The same with every request settling in the end: the oldest waiting     *)
(* call gets its response, whatever else happens.                          *)
Settles ==
    /\ lexCalls # << >>
    /\ \/ \E outcome \in {"read", "unavailable", "failed"} : IdbResponse(1, outcome)
       \/ \E ok \in BOOLEAN : PriorityResponse(1, ok)
       \/ \E ok \in BOOLEAN, written \in BOOLEAN : FullResponse(1, ok, written)
       \/ \E ok \in BOOLEAN, written \in BOOLEAN : BackgroundResponse(1, ok, written)

SpecLexiconLive == SpecLexicon /\ WF_vars(Settles)

---------------------------------------------------------------------------
(* The reading views of a chapter page: interlinear (js/interlinear.js),   *)
(* grammar (js/grammar-view.js) and parallel (js/parallel-view.js).  A     *)
(* verse block is a record: ref tells whether it has a .verse-ref with a   *)
(* next sibling ahead of the text (a parallel wrapper is then inserted     *)
(* right after the ref, else appended to the block); text is the           *)
(* .original-text.geez element (hasText: there is one), translation the    *)
(* .translation element (hasTrans); wrappers are the .parallel-verse       *)
(* elements of the block in document order.  The children of a text        *)
(* element are a sequence of nodes: word spans, text nodes, or one         *)
(* interlinear line.  innerHTML is that sequence.                          *)

\* <span class="word">geez</span> as served
WordSpan(geez) ==
    [kind |-> "word", geez |-> geez, styled |-> FALSE, grammarApplied |-> "none"]

\* a text node
TextNode == [kind |-> "text"]

\* the .original-text.geez element with the children nodes, as served
TextDiv(nodes) ==
    [nodes |-> nodes, interlinearApplied |-> "none", saved |-> FALSE,
     originalHtml |-> << >>, active |-> FALSE, hidden |-> FALSE]

\* the children of the text elements on the pages examined
ServedTexts ==
    { << >>, << TextNode >>, << WordSpan(<<4656>>), TextNode, WordSpan(<<4619, 4656>>) >> }

\* the verse blocks on the pages examined
BlockShapes ==
    { [refFirst |-> r, hasText |-> t, text |-> TextDiv(n),
       served |-> n, hasTrans |-> e,
       translation |-> [text |-> <<97>>, hidden |-> FALSE],
       parallelApplied |-> "none", parallelActive |-> FALSE, wrappers |-> << >>] :
         r \in BOOLEAN, t \in BOOLEAN, e \in BOOLEAN, n \in ServedTexts }

RECURSIVE PagesOfLen(_)
PagesOfLen(n) ==
    IF n = 0 THEN {<< >>}
    ELSE {Append(p, b) : p \in PagesOfLen(n - 1),
                         b \in {s \in BlockShapes : s.hasText \/ s.served = << >>}}

\* the pages examined: up to MaxBlocks verse blocks
Pages == UNION {PagesOfLen(n) : n \in 1..MaxBlocks}

\* block.querySelector('.original-text.geez') finds the copy inside a wrapper
\* when the wrapper comes first in the block, or when it is the only one
InWrapper(block) ==
    /\ block.wrappers # << >>
    /\ block.refFirst \/ ~block.hasText

\* block.querySelector('.original-text.geez') is not null
HasTextDiv(block) == block.hasText \/ block.wrappers # << >>

\* block.querySelector('.original-text.geez')
TextDivOf(block) == IF InWrapper(block) THEN block.wrappers[1].geez ELSE block.text

\* the block with that element replaced by div
WithTextDiv(block, div) ==
    IF InWrapper(block) THEN [block EXCEPT !.wrappers[1].geez = div]
    ELSE [block EXCEPT !.text = div]

\* textDiv.querySelectorAll('.word')
WordsOf(div) == SelectSeq(div.nodes, LAMBDA n : n.kind = "word")

\* the interlinear line built from the word spans
InterlinearLine(words) ==
    << [kind |-> "line",
        cells |-> [k \in DOMAIN words |->
                      [geez |-> Trim(words[k].geez),
                       translit |-> GetWordTranslit(Trim(words[k].geez))]]] >>

\* mutant: enableInterlinear without the test of interlinearApplied
EnableInterlinearAgain(block) ==
    IF ~HasTextDiv(block) THEN block
    ELSE LET div == TextDivOf(block)
             kept == [div EXCEPT !.originalHtml = div.nodes, !.saved = TRUE,
                                 !.interlinearApplied = "true"]
         IN  IF WordsOf(div) = << >> THEN WithTextDiv(block, kept)
             ELSE WithTextDiv(block, [kept EXCEPT !.nodes = InterlinearLine(WordsOf(div)),
                                                  !.active = TRUE])

\* enableInterlinear(block)
EnableInterlinear(block) ==
    IF ~HasTextDiv(block) \/ TextDivOf(block).interlinearApplied = "true" THEN block
    ELSE LET div == TextDivOf(block)
             kept == [div EXCEPT !.originalHtml = div.nodes, !.saved = TRUE,
                                 !.interlinearApplied = "true"]
         IN  IF WordsOf(div) = << >> THEN WithTextDiv(block, kept)
             ELSE WithTextDiv(block, [kept EXCEPT !.nodes = InterlinearLine(WordsOf(div)),
                                                  !.active = TRUE])

\* disableInterlinear(block); the saved markup is falsy when it is not there
\* or is the empty string
DisableInterlinear(block) ==
    IF ~HasTextDiv(block) \/ TextDivOf(block).interlinearApplied # "true" THEN block
    ELSE LET div == TextDivOf(block)
         IN  WithTextDiv(block,
                 [div EXCEPT !.nodes = IF div.saved /\ div.originalHtml # << >>
                                       THEN div.originalHtml ELSE @,
                             !.interlinearApplied = "false",
                             !.active = FALSE])

\* enableGrammar(block): every word span is styled, by its part of speech or as
\* unknown, and marked
EnableGrammar(block) ==
    IF ~HasTextDiv(block) THEN block
    ELSE LET div == TextDivOf(block)
         IN  WithTextDiv(block,
                 [div EXCEPT !.nodes =
                     [k \in DOMAIN div.nodes |->
                         IF div.nodes[k].kind = "word"
                         THEN [div.nodes[k] EXCEPT !.styled = TRUE,
                                                   !.grammarApplied = "true"]
                         ELSE div.nodes[k]]])

\* disableGrammar(block)
DisableGrammar(block) ==
    IF ~HasTextDiv(block) THEN block
    ELSE LET div == TextDivOf(block)
         IN  WithTextDiv(block,
                 [div EXCEPT !.nodes =
                     [k \in DOMAIN div.nodes |->
                         IF div.nodes[k].kind = "word"
                            /\ div.nodes[k].grammarApplied = "true"
                         THEN [div.nodes[k] EXCEPT !.styled = FALSE,
                                                   !.grammarApplied = "false"]
                         ELSE div.nodes[k]]])

\* the block with the new .parallel-verse element put in
Inserted(block, wrapper) ==
    IF block.refFirst THEN [block EXCEPT !.wrappers = <<wrapper>> \o @]
    ELSE [block EXCEPT !.wrappers = Append(@, wrapper)]

\* mutant: enableParallel without the test of parallelApplied
EnableParallelAgain(block) ==
    IF ~HasTextDiv(block) \/ ~block.hasTrans THEN block
    ELSE LET wrapper == [geez |-> TextDivOf(block), english |-> block.translation.text]
             hiddenBlock == [WithTextDiv(block, [TextDivOf(block) EXCEPT !.hidden = TRUE])
                                EXCEPT !.translation.hidden = TRUE,
                                       !.parallelApplied = "true",
                                       !.parallelActive = TRUE]
         IN  Inserted(hiddenBlock, wrapper)

\* enableParallel(block): the wrapper holds a copy of the text element, made
\* before the element is hidden, and the text of the translation
EnableParallel(block) ==
    IF block.parallelApplied = "true" THEN block
    ELSE IF ~HasTextDiv(block) \/ ~block.hasTrans THEN block
    ELSE LET wrapper == [geez |-> TextDivOf(block), english |-> block.translation.text]
             hiddenBlock == [WithTextDiv(block, [TextDivOf(block) EXCEPT !.hidden = TRUE])
                                EXCEPT !.translation.hidden = TRUE,
                                       !.parallelApplied = "true",
                                       !.parallelActive = TRUE]
         IN  Inserted(hiddenBlock, wrapper)

\* disableParallel(block) but for the interlinear button: the first wrapper
\* is removed, then the text element found and shown again
DisableParallel(block) ==
    IF block.parallelApplied # "true" THEN block
    ELSE LET removed == [block EXCEPT !.wrappers = IF @ = << >> THEN @ ELSE Tail(@)]
             shown == IF HasTextDiv(removed)
                      THEN WithTextDiv(removed, [TextDivOf(removed) EXCEPT !.hidden = FALSE])
                      ELSE removed
         IN  [shown EXCEPT !.translation.hidden = IF block.hasTrans THEN FALSE ELSE @,
                           !.parallelApplied = "false",
                           !.parallelActive = FALSE]

\* everything the views leave alone
viewOther ==
    <<corpus, wordData, searchVars, translitVars, lexVars, lookupVars, modalVars,
      glossVars>>

\* toggleInterlinear() from a state with the mode mode and the blocks bs: the
\* new mode and the new blocks
ToggledInterlinear(mode, bs) ==
    [mode |-> ~mode,
     blocks |-> [b \in DOMAIN bs |-> IF ~mode THEN EnableInterlinear(bs[b])
                                     ELSE DisableInterlinear(bs[b])]]

\* a click on #interlinear-toggle; a disabled button takes no click
ToggleInterlinear ==
    /\ ~ilBtnDisabled
    /\ interlinearMode' = ToggledInterlinear(interlinearMode, blocks).mode
    /\ blocks' = ToggledInterlinear(interlinearMode, blocks).blocks
    /\ UNCHANGED <<grammarMode, parallelMode, ilBtnDisabled, viewOther>>

\* toggleGrammar()
ToggleGrammar ==
    /\ grammarMode' = ~grammarMode
    /\ blocks' = [b \in DOMAIN blocks |-> IF grammarMode' THEN EnableGrammar(blocks[b])
                                          ELSE DisableGrammar(blocks[b])]
    /\ UNCHANGED <<interlinearMode, parallelMode, ilBtnDisabled, viewOther>>

\* mutant: toggleParallel leaves interlinear view as it is
ToggleParallelOnly ==
    /\ parallelMode' = ~parallelMode
    /\ ilBtnDisabled' = parallelMode'
    /\ blocks' = [b \in DOMAIN blocks |->
                     IF parallelMode' THEN EnableParallel(blocks[b])
                     ELSE DisableParallel(blocks[b])]
    /\ UNCHANGED <<grammarMode, interlinearMode, viewOther>>

\* toggleParallel(): interlinear view is left first; the interlinear button is
\* disabled while parallel view is on (disableParallel enables it as well)
ToggleParallel ==
    LET leave == parallelMode' /\ interlinearMode
        before == IF leave THEN ToggledInterlinear(interlinearMode, blocks)
                  ELSE [mode |-> interlinearMode, blocks |-> blocks]
    IN  /\ parallelMode' = ~parallelMode
        /\ interlinearMode' = before.mode
        /\ ilBtnDisabled' = parallelMode'
        /\ blocks' = [b \in DOMAIN blocks |->
                         IF parallelMode' THEN EnableParallel(before.blocks[b])
                         ELSE DisableParallel(before.blocks[b])]
        /\ UNCHANGED <<grammarMode, viewOther>>

\* a chapter page as served, the scripts loaded
InitViews ==
    /\ corpus = Corpora[1]
    /\ Loaded
    /\ geezDefs = NoWords
    /\ idbStore = NoWords
    /\ blocks \in Pages

NextViews == ToggleInterlinear \/ ToggleGrammar \/ ToggleParallel

SpecViews == InitViews /\ [][NextViews]_vars

(* Grammar and interlinear view alone.                                     *)
NextGrammar == ToggleInterlinear \/ ToggleGrammar

SpecGrammar == InitViews /\ [][NextGrammar]_vars

(* The functions called on single blocks, in any order.                    *)
EnableInterlinearCall(b) ==
    /\ blocks' = [blocks EXCEPT ![b] = EnableInterlinear(@)]
    /\ UNCHANGED <<grammarMode, interlinearMode, parallelMode, ilBtnDisabled, viewOther>>

DisableInterlinearCall(b) ==
    /\ blocks' = [blocks EXCEPT ![b] = DisableInterlinear(@)]
    /\ UNCHANGED <<grammarMode, interlinearMode, parallelMode, ilBtnDisabled, viewOther>>

EnableParallelCall(b) ==
    /\ blocks' = [blocks EXCEPT ![b] = EnableParallel(@)]
    /\ UNCHANGED <<grammarMode, interlinearMode, parallelMode, ilBtnDisabled, viewOther>>

DisableParallelCall(b) ==
    /\ blocks' = [blocks EXCEPT ![b] = DisableParallel(@)]
    /\ ilBtnDisabled' = IF blocks[b].parallelApplied = "true" THEN FALSE ELSE ilBtnDisabled
    /\ UNCHANGED <<grammarMode, interlinearMode, parallelMode, viewOther>>

NextInterlinear ==
    \/ \E b \in DOMAIN blocks : EnableInterlinearCall(b)
    \/ \E b \in DOMAIN blocks : DisableInterlinearCall(b)

SpecInterlinear == InitViews /\ [][NextInterlinear]_vars

NextParallel ==
    \/ \E b \in DOMAIN blocks : EnableParallelCall(b)
    \/ \E b \in DOMAIN blocks : DisableParallelCall(b)

SpecParallel == InitViews /\ [][NextParallel]_vars

---------------------------------------------------------------------------
(* Properties.  The expected outcome of a query is stated here on its own  *)
(* terms (sets of entries and verses, letter-by-letter comparison), apart  *)
(* from the loops above.                                                   *)

\* resultsDiv holds the outcome of the three passes for the query shownFor
Evaluated == resultsDiv.kind \in {"Results", "NoResults"}

\* the query has a character in U+1200..U+137F
HasEthiopic(query) == \E i \in DOMAIN query : query[i] \in 4608..4991

\* two code units are the same letter up to case
SameLetter(a, b) ==
    \/ a = b
    \/ a \in 65..90 /\ b = a + 32
    \/ b \in 65..90 /\ a = b + 32

\* term occurs in text, letter case ignored
ContainsIgnoringCase(text, term) ==
    \E k \in 0..(Len(text) - Len(term)) :
        \A j \in 1..Len(term) : SameLetter(text[k + j], term[j])

\* term occurs in text as it stands
ContainsExactly(text, term) ==
    \E k \in 0..(Len(text) - Len(term)) : \A j \in 1..Len(term) : text[k + j] = term[j]

SearchFields == <<"definition", "english_definition", "transliteration", "root">>
FieldLabels == <<"Definition", "Modern definition", "Transliteration", "Root">>

\* field f of lexicon entry i contains the shown query, letter case ignored
FieldHit(i, f) ==
    ContainsIgnoringCase(Field(searchIndex.words[i].data, SearchFields[f]), shownFor)

\* the lexicon entries a Latin query matches
FieldHits == {i \in DOMAIN searchIndex.words : \E f \in 1..4 : FieldHit(i, f)}

\* the lexicon entries a script-native query matches
KeyHits == {i \in DOMAIN searchIndex.words : ContainsExactly(searchIndex.words[i].geez, shownFor)}

\* the Words section lists the entry with this key
WordShown(geez) == \E k \in DOMAIN resultsDiv.words : resultsDiv.words[k].geez = geez

\* the debounce timer fires in this step
Fires == debounce /\ ~debounce'

\* C1: a query whose trimmed length is below 2 yields the TooShort hint whatever
\* the index holds, loaded or not, and starts no load of the index.
C1_TooShort ==
    [][(Fires /\ Len(Trim(inputValue)) < 2)
        => /\ resultsDiv' = TooShortHint
           /\ shownFor' = Trim(inputValue)
           /\ calls' = calls
           /\ searchIndex' = searchIndex]_vars

\* a single Ge'ez character typed with a blank before it got the hint while the
\* index was not built and no load was waiting
C1_Witness ==
    /\ resultsDiv.kind = "TooShort"
    /\ inputValue = <<32, 4656>>
    /\ shownFor = <<4656>>
    /\ ~searchIndex.loaded
    /\ calls = <<>>

\* C2: for a Latin query an entry is a word match iff one of definition,
\* english_definition, transliteration, root contains the query, letter case
\* ignored and a missing field read as empty; the field reported is the first
\* of the four, in that order, that contains it.
C2_LatinWordMatch ==
    (Evaluated /\ ~HasEthiopic(shownFor)) =>
        /\ resultsDiv.wordCount = Cardinality(FieldHits)
        /\ \A i \in FieldHits :
               WordShown(searchIndex.words[i].geez) \/ resultsDiv.wordCount > 50
        /\ \A k \in DOMAIN resultsDiv.words :
               \E i \in FieldHits :
                   /\ searchIndex.words[i].geez = resultsDiv.words[k].geez
                   /\ \E f \in 1..4 :
                          /\ FieldHit(i, f)
                          /\ \A g \in 1..(f - 1) : ~FieldHit(i, g)
                          /\ resultsDiv.words[k].matchType = FieldLabels[f]

\* the query "aX" matched "Ax a", the definition of an entry whose root "ax"
\* contains it too, and the entry is reported under Definition
C2_Witness ==
    /\ resultsDiv.kind = "Results"
    /\ shownFor = <<97, 88>>
    /\ \E k \in DOMAIN resultsDiv.words :
           /\ resultsDiv.words[k].geez = <<4656, 4619>>
           /\ resultsDiv.words[k].matchType = "Definition"
    /\ \E i \in DOMAIN searchIndex.words :
           /\ searchIndex.words[i].geez = <<4656, 4619>>
           /\ FieldHit(i, 1)
           /\ FieldHit(i, 4)

\* C3: a query is script-native iff it has a character in U+1200..U+137F; the
\* word matches of a script-native query are exactly the entries whose key
\* contains the whole query, no field consulted; a Latin query matches no
\* entry by its key.
C3_ScriptNative ==
    Evaluated =>
        IF HasEthiopic(shownFor)
        THEN /\ resultsDiv.wordCount = Cardinality(KeyHits)
             /\ \A i \in KeyHits :
                    WordShown(searchIndex.words[i].geez) \/ resultsDiv.wordCount > 50
             /\ \A k \in DOMAIN resultsDiv.words :
                    /\ resultsDiv.words[k].matchType = "Ge'ez match"
                    /\ \E i \in KeyHits :
                           searchIndex.words[i].geez = resultsDiv.words[k].geez
        ELSE /\ \A k \in DOMAIN resultsDiv.words :
                    resultsDiv.words[k].matchType # "Ge'ez match"
             /\ \A i \in KeyHits \ FieldHits : ~WordShown(searchIndex.words[i].geez)

\* the query U+1230 U+120B matched the two keys that contain it, one of them
\* an entry none of whose fields is set to anything with that text
C3_Witness ==
    /\ resultsDiv.kind = "Results"
    /\ shownFor = <<4656, 4619>>
    /\ resultsDiv.wordCount = 2
    /\ WordShown(<<4619, 4656, 4619>>)

\* the verses a Latin query matches
VerseHits ==
    {j \in DOMAIN searchIndex.verses :
        ContainsIgnoringCase(searchIndex.verses[j].english, shownFor)}

\* the Verses section lists the verse with this ref
VerseShown(ref) == \E k \in DOMAIN resultsDiv.verses : resultsDiv.verses[k].ref = ref

\* C4: a script-native query has no verse matches; the verse matches of a
\* Latin query are exactly the verses whose English text contains the query,
\* letter case ignored.
C4_VerseMatch ==
    Evaluated =>
        IF HasEthiopic(shownFor)
        THEN resultsDiv.verseCount = 0 /\ resultsDiv.verses = <<>>
        ELSE /\ resultsDiv.verseCount = Cardinality(VerseHits)
             /\ \A j \in VerseHits :
                    VerseShown(searchIndex.verses[j].ref) \/ resultsDiv.verseCount > 30
             /\ \A k \in DOMAIN resultsDiv.verses :
                    \E j \in VerseHits :
                        /\ searchIndex.verses[j].ref = resultsDiv.verses[k].ref
                        /\ searchIndex.verses[j].english = resultsDiv.verses[k].english

\* "X 1" matched the verse "Ax 11" and no other
C4_Witness ==
    /\ resultsDiv.kind = "Results"
    /\ shownFor = <<88, 32, 49>>
    /\ resultsDiv.verseCount = 1
    /\ VerseShown(Ref(1, 1))

\* a script-native query got word matches and no verse match, although a verse
\* text contains the query
C4_WitnessGeez ==
    /\ resultsDiv.kind = "Results"
    /\ shownFor = <<4656, 4619>>
    /\ VerseHits # {}
    /\ resultsDiv.verseCount = 0

\* performSearch has answered the query shownFor from a built index, or refused it
Answered == searchIndex.loaded /\ resultsDiv.kind \in {"TooShort", "Results", "NoResults"}

\* the Gematria section lists the entry with this key
GemListed(geez) == \E k \in DOMAIN resultsDiv.gems : resultsDiv.gems[k].geez = geez

\* every character of the query is a decimal digit
AllDigits(query) == \A i \in DOMAIN query : query[i] >= 48 /\ query[i] <= 57

\* the gematria matches listed have exactly the number the query spells
GemExact ==
    \A k \in DOMAIN resultsDiv.gems :
        AllDigits(shownFor) /\ resultsDiv.gems[k].gematria = DigitsValue(shownFor)

\* C5 as claimed: for every entry with an integer gematria g the query str(g)
\* lists the entry among the gematria matches and the query str(g) + "x" does
\* not.  Fails for g below 10, whose decimal string is one character long.
C5_AnyGematria ==
    Answered =>
        /\ GemExact
        /\ \A i \in DOMAIN searchIndex.words :
               "gematria" \in DOMAIN searchIndex.words[i].data =>
                   LET g == searchIndex.words[i].data.gematria
                   IN  /\ shownFor = ToDecimal(g) => GemListed(searchIndex.words[i].geez)
                       /\ shownFor = ToDecimal(g) \o <<120>>
                              => ~GemListed(searchIndex.words[i].geez)

\* C5: for every entry whose gematria is an integer g of at least two decimal
\* digits the query str(g) lists the entry among the gematria matches and the
\* query str(g) + "x" does not; every gematria match listed has exactly the
\* number the query spells.
C5_GematriaTwoDigits ==
    Answered =>
        /\ GemExact
        /\ \A i \in DOMAIN searchIndex.words :
               "gematria" \in DOMAIN searchIndex.words[i].data =>
                   LET g == searchIndex.words[i].data.gematria
                   IN  /\ (g >= 10 /\ shownFor = ToDecimal(g))
                              => GemListed(searchIndex.words[i].geez)
                       /\ shownFor = ToDecimal(g) \o <<120>>
                              => ~GemListed(searchIndex.words[i].geez)

\* "11" listed the two entries of gematria 11 and not the entry of gematria 111
C5_Witness ==
    /\ resultsDiv.kind = "Results"
    /\ shownFor = <<49, 49>>
    /\ resultsDiv.gemCount = 2
    /\ GemListed(<<4656, 4619>>)
    /\ GemListed(<<97, 120>>)
    /\ ~GemListed(<<4656>>)

\* "11x" was answered with no gematria match
C5_WitnessSuffix ==
    /\ Answered
    /\ resultsDiv.kind # "TooShort"
    /\ shownFor = <<49, 49, 120>>
    /\ resultsDiv.gemCount = 0
    /\ \E i \in DOMAIN searchIndex.words :
           /\ "gematria" \in DOMAIN searchIndex.words[i].data
           /\ searchIndex.words[i].data.gematria = 11

\* the lexicon entries a digits-only query matches by gematria
GemHits ==
    IF shownFor # <<>> /\ AllDigits(shownFor)
    THEN {i \in DOMAIN searchIndex.words :
             /\ "gematria" \in DOMAIN searchIndex.words[i].data
             /\ searchIndex.words[i].data.gematria = DigitsValue(shownFor)}
    ELSE {}

\* the entries expected in the Words section, the verses expected in the
\* Verses section
WordHits == IF HasEthiopic(shownFor) THEN KeyHits ELSE FieldHits
VerseHitsOrNone == IF HasEthiopic(shownFor) THEN {} ELSE VerseHits

\* C6: each pass reports what the query and the index give it, whatever the
\* other passes matched: the three counts of one result are the three counts
\* of the passes taken alone.
C6_IndependentPasses ==
    Evaluated =>
        /\ resultsDiv.wordCount = Cardinality(WordHits)
        /\ resultsDiv.verseCount = Cardinality(VerseHitsOrNone)
        /\ resultsDiv.gemCount = Cardinality(GemHits)

\* the digits-only query "11" has word, verse and gematria matches in one result
C6_Witness ==
    /\ resultsDiv.kind = "Results"
    /\ shownFor = <<49, 49>>
    /\ resultsDiv.wordCount > 0
    /\ resultsDiv.verseCount > 0
    /\ resultsDiv.gemCount > 0

\* C7: of n word matches the first min(n, 50) are shown, of m verse matches
\* the first min(m, 30), every gematria match is shown, and the counts
\* reported are n and m.
C7_Caps ==
    resultsDiv.kind = "Results" =>
        LET wm == WordPass(searchIndex, shownFor)
            vm == VersePass(searchIndex, shownFor)
            gm == GematriaPass(searchIndex, shownFor)
        IN  /\ resultsDiv.wordCount = Len(wm)
            /\ Len(resultsDiv.words) = Min(Len(wm), 50)
            /\ \A k \in DOMAIN resultsDiv.words : resultsDiv.words[k].geez = wm[k].geez
            /\ resultsDiv.wordMore = IF Len(wm) > 50 THEN Len(wm) - 50 ELSE 0
            /\ resultsDiv.verseCount = Len(vm)
            /\ Len(resultsDiv.verses) = Min(Len(vm), 30)
            /\ \A k \in DOMAIN resultsDiv.verses : resultsDiv.verses[k].ref = vm[k].ref
            /\ resultsDiv.verseMore = IF Len(vm) > 30 THEN Len(vm) - 30 ELSE 0
            /\ resultsDiv.gemCount = Len(gm)
            /\ Len(resultsDiv.gems) = Len(gm)
            /\ \A k \in DOMAIN resultsDiv.gems : resultsDiv.gems[k].geez = gm[k].geez

\* 60 word matches: 50 shown, 60 reported; more than 30 verse matches: 30 shown;
\* more than 50 gematria matches: all shown
C7_Witness ==
    /\ resultsDiv.kind = "Results"
    /\ resultsDiv.wordCount = 60
    /\ Len(resultsDiv.words) = 50
    /\ resultsDiv.wordMore = 10
    /\ resultsDiv.verseCount > 30
    /\ Len(resultsDiv.verses) = 30
    /\ resultsDiv.gemCount > 50
    /\ Len(resultsDiv.gems) = resultsDiv.gemCount

\* C8: the total reported is the number of word matches plus the number of
\* verse matches plus the number of gematria matches, none of them capped; an
\* entry matched by the word pass and by the gematria pass counts in both.
C8_Total ==
    resultsDiv.kind = "Results" =>
        resultsDiv.total =
            Cardinality(WordHits) + Cardinality(VerseHitsOrNone) + Cardinality(GemHits)

\* a total above the caps, with entries that are word and gematria matches at once
C8_Witness ==
    /\ resultsDiv.kind = "Results"
    /\ WordHits \cap GemHits # {}
    /\ Cardinality(WordHits) > 50
    /\ Cardinality(VerseHits) > 30
    /\ resultsDiv.total = Cardinality(WordHits) + Cardinality(VerseHits) + Cardinality(GemHits)

\* place of a key in the lexicon, of a ref in the verse sequence
WordPos(geez) == CHOOSE i \in DOMAIN searchIndex.words : searchIndex.words[i].geez = geez
VersePos(ref) == CHOOSE j \in DOMAIN searchIndex.verses : searchIndex.verses[j].ref = ref

\* C9: each list follows the order of its source, with no item twice: word and
\* gematria matches the order of the lexicon, verse matches the order of the
\* verse sequence.
C9_SourceOrder ==
    Evaluated =>
        /\ \A a, b \in DOMAIN resultsDiv.words :
               a < b => WordPos(resultsDiv.words[a].geez) < WordPos(resultsDiv.words[b].geez)
        /\ \A a, b \in DOMAIN resultsDiv.verses :
               a < b => VersePos(resultsDiv.verses[a].ref) < VersePos(resultsDiv.verses[b].ref)
        /\ \A a, b \in DOMAIN resultsDiv.gems :
               a < b => WordPos(resultsDiv.gems[a].geez) < WordPos(resultsDiv.gems[b].geez)

\* a result whose three lists have several items each, the matching entries
\* not being neighbours in the lexicon
C9_Witness ==
    /\ resultsDiv.kind = "Results"
    /\ shownFor = <<49, 49>>
    /\ Len(resultsDiv.words) = 2
    /\ WordPos(resultsDiv.words[1].geez) = 3
    /\ WordPos(resultsDiv.words[2].geez) = 5
    /\ Len(resultsDiv.gems) = 2
    /\ WordPos(resultsDiv.gems[1].geez) = 1

\* the verses whose word sequence contains the word
VersesWith(geez) ==
    {j \in DOMAIN searchIndex.verses : geez \in Range(searchIndex.verses[j].words)}

\* the k-th smallest element of a set of numbers
NthOf(S, k) == CHOOSE j \in S : Cardinality({m \in S : m <= j}) = k

\* refs are the refs of the verses containing the word, in verse order, once each
RefsExact(geez, refs) ==
    /\ Len(refs) = Cardinality(VersesWith(geez))
    /\ \A k \in DOMAIN refs : refs[k] = searchIndex.verses[NthOf(VersesWith(geez), k)].ref

\* the verse references a result item carries
ReportedRefs(item) == IF "locations" \in DOMAIN item THEN item.locations ELSE <<>>

\* C10 as claimed: every matched entry in the result, word match or gematria
\* match, reports exactly the refs of the verses that contain it.  Fails for
\* gematria matches, which report no verse reference.
C10_EveryMatchedEntry ==
    Evaluated =>
        /\ \A k \in DOMAIN resultsDiv.words :
               RefsExact(resultsDiv.words[k].geez, ReportedRefs(resultsDiv.words[k]))
        /\ \A k \in DOMAIN resultsDiv.gems :
               RefsExact(resultsDiv.gems[k].geez, ReportedRefs(resultsDiv.gems[k]))

\* C10: every shown word match reports exactly the refs of the verses whose
\* word sequence contains the word, in verse order and once per verse; a word
\* in no verse reports none; gematria matches report no verse reference.
C10_WordMatchLocations ==
    Evaluated =>
        /\ \A k \in DOMAIN resultsDiv.words :
               RefsExact(resultsDiv.words[k].geez, ReportedRefs(resultsDiv.words[k]))
        /\ \A k \in DOMAIN resultsDiv.gems : ReportedRefs(resultsDiv.gems[k]) = <<>>

\* a word that stands twice in verse 1:1 reports 1:1 once and then 2:2, a word in
\* no verse reports nothing, and a verse holds a word the lexicon lacks
C10_Witness ==
    /\ resultsDiv.kind = "Results"
    /\ \E k \in DOMAIN resultsDiv.words :
           /\ resultsDiv.words[k].geez = <<4656, 4619>>
           /\ resultsDiv.words[k].locations = <<Ref(1, 1), Ref(2, 2)>>
    /\ \E k \in DOMAIN resultsDiv.words : resultsDiv.words[k].locations = <<>>
    /\ \E j \in DOMAIN searchIndex.verses :
           \E w \in DOMAIN searchIndex.verses[j].words :
               \A i \in DOMAIN searchIndex.words :
                   searchIndex.words[i].geez # searchIndex.verses[j].words[w]

---------------------------------------------------------------------------
(* The loads of a session *)

\* what a session's queries can be
SessionQueries == {Trim(v) : v \in SessionTexts \cup {<<>>}}

\* the performSearch call for query ends in this step: at once when the timer
\* fires, or when the load it waited for returns
Ends(query) ==
    \/ Fires /\ calls' = calls /\ query = Trim(inputValue)
    \/ \E i \in DOMAIN calls :
           /\ calls[i].caller = "search"
           /\ calls[i].query = query
           /\ calls' = RemoveAt(calls, i)

\* a loadSearchIndex call returns null in this step
LoadFailed == failures' = failures + 1

C12_AcquiredOnce == indexFetches <= 1 /\ builds <= 1

\* openSearch is called in this step
Opens == ~clearTimer /\ clearTimer'

\* C13: a loadSearchIndex call that begins when the index is built returns
\* that index and fetches nothing: neither openSearch nor a query starts a
\* load, the index stays, and the query is answered from it at once.
C13_BuiltIndexReused ==
    [][searchIndex.loaded /\ (Opens \/ Fires) =>
          /\ calls' = calls
          /\ indexFetches' = indexFetches
          /\ searchIndex' = searchIndex
          /\ Fires /\ ~TooShort(Trim(inputValue)) =>
                 /\ resultsDiv' = Evaluate(searchIndex, Trim(inputValue))
                 /\ shownFor' = Trim(inputValue)]_vars

\* the one load of the session was openSearch's preload (the first load always
\* is), and a query has been answered with matches from the index it built
C13_Witness ==
    /\ indexFetches = 1
    /\ builds = 1
    /\ resultsDiv.kind = "Results"

---------------------------------------------------------------------------
(* The debounce *)

\* an input event is handled in this step
InputStep == inputValue' # inputValue /\ clearTimer' = clearTimer

\* an evaluation starts in this step: a timer of the listener has fired
Starts == Len(timers') < Len(timers)

\* performSearch has been called with query in this step
Called(query) ==
    \/ shownFor' = query /\ resultsDiv'.kind # "Blank" /\ calls' = calls
    \/ calls' = Append(calls, [caller |-> "search", query |-> query, pc |-> "index"])

\* C14: trailing debounce.  Every input event cancels the pending timer and
\* arms a new one of 200 ms, so at most one evaluation is pending (scheduled)
\* at any time; an evaluation starts only when 200 ms have passed since the
\* last input event, with the trimmed value the input holds then, and leaves
\* no timer behind: the events of a burst spaced less than 200 ms apart start
\* no evaluation between them and one after the last.
C14_TrailingDebounce ==
    [][/\ Len(timers) <= 1 /\ Len(timers') <= 1
       /\ InputStep => timers' = <<DebounceDelay>>
       /\ Len(timers') > Len(timers) => InputStep
       /\ Starts => /\ sinceInput >= DebounceDelay
                    /\ timers' = <<>>
                    /\ Called(Trim(inputValue))]_vars

\* the evaluation after a burst has run, with the trimmed value of the input
C14_Witness ==
    /\ timers = <<>>
    /\ sinceInput = DebounceDelay
    /\ inputValue = <<97, 88, 32>>
    /\ shownFor = <<97, 88>>
    /\ Evaluated

---------------------------------------------------------------------------
(* The markup of the results *)

\* C15 as stated: every text of the result that comes from the query or from
\* the documents (lexicon key, transliteration, definition, verse ref, verse
\* text) is in the markup in its escaped form.
C15_AllEscaped ==
    Evaluated =>
        /\ resultsDiv.label # <<>> => resultsDiv.label = EscapeHtml(shownFor)
        /\ \A k \in DOMAIN resultsDiv.words :
               LET item == resultsDiv.words[k]
               IN  /\ item.html.geez = EscapeHtml(item.geez)
                   /\ item.html.trans = EscapeHtml(item.trans)
                   /\ item.html.def = EscapeHtml(item.def)
                   /\ \A j \in DOMAIN item.locations :
                          item.html.locations[j] = EscapeHtml(item.locations[j])
        /\ \A k \in DOMAIN resultsDiv.verses :
               LET item == resultsDiv.verses[k]
               IN  /\ item.html.ref = EscapeHtml(item.ref)
                   /\ item.html.english = EscapeHtml(item.english)
        /\ \A k \in DOMAIN resultsDiv.gems :
               LET item == resultsDiv.gems[k]
               IN  /\ item.html.geez = EscapeHtml(item.geez)
                   /\ item.html.trans = EscapeHtml(item.trans)
                   /\ item.html.def = EscapeHtml(item.def)

---------------------------------------------------------------------------
(* Malformed documents *)

\* C16 as stated: no index is built from a malformed document; the load ends
\* as a failed one, and the query waiting on it ends with 'index unavailable'.
C16_MalformedRejected ==
    [][builds' > builds =>
          /\ searchIndex'.versesOk
          /\ searchIndex'.wordsOk]_vars

\* C17 as stated: no evaluation throws; each ends as the TooShort hint, as
\* 'index unavailable', as the no-results variant or as a result list with its
\* summary, and it is the no-results variant exactly when the query has at
\* least two characters, the index is there and the three passes are empty.
C17_FourOutcomes ==
    /\ ~uncaught
    /\ resultsDiv.kind \in {"Blank", "TooShort", "Unavailable", "NoResults", "Results"}
    /\ resultsDiv.kind = "TooShort" => TooShort(shownFor)
    /\ resultsDiv.kind = "Unavailable" => ~TooShort(shownFor)
    /\ resultsDiv.kind = "Results" => resultsDiv.total > 0
    /\ Evaluated =>
           /\ ~TooShort(shownFor)
           /\ searchIndex.loaded
           /\ resultsDiv.kind = "NoResults"
                  <=> WordHits = {} /\ VerseHitsOrNone = {} /\ GemHits = {}

---------------------------------------------------------------------------
(* Transliteration *)

\* the code unit at i is the second half of a character (a low surrogate
\* after a high one)
SecondHalf(s, i) ==
    /\ i > 1
    /\ s[i] >= 56320 /\ s[i] <= 57343
    /\ s[i - 1] >= 55296 /\ s[i - 1] <= 56319

\* the character that starts at i, as code units
CharAt(s, i) ==
    IF i < Len(s) /\ SecondHalf(s, i + 1) THEN <<s[i], s[i + 1]>> ELSE <<s[i]>>

\* the segment the character starting at i gives: the table's syllable, '?'
\* for a character of U+1200..U+137F that the table lacks, else the character
SegmentAt(s, i) ==
    LET ch == CharAt(s, i)
        cp == IF Len(ch) = 2 THEN 65536 + (ch[1] - 55296) * 1024 + (ch[2] - 56320)
              ELSE ch[1]
    IN  IF SecondHalf(s, i) THEN <<>>
        ELSE IF cp \in DOMAIN translitBases THEN translitBases[cp]
        ELSE IF cp \in 4608..4991 THEN <<63>>
        ELSE ch

\* C18: transliterate returns the segments of the word's characters, joined
\* in order (a string for every word, the empty one for the empty word).
C18_Transliterate ==
    /\ tlResult = Joined([i \in DOMAIN tlWord |-> SegmentAt(tlWord, i)], 1, Len(tlWord))
    /\ tlWord = <<>> => tlResult = <<>>

\* 'sa', a Ge'ez character outside the table and a space give "sa? "
C18_Witness ==
    /\ tlWord = <<4656, 4952, 32>>
    /\ tlResult = <<115, 97, 63, 32>>

\* the endings of the eight forms: a, u, i, a, e, none, o, wa
FormEndings ==
    << <<97>>, <<117>>, <<105>>, <<97>>, <<101>>, <<>>, <<111>>, <<119, 97>> >>

\* the table has the eight forms of each row, and nothing else
TableShape ==
    /\ DOMAIN translitBases =
           {TranslitRows[r][1] + v : r \in DOMAIN TranslitRows, v \in 0..7}
    /\ \A r \in DOMAIN TranslitRows : \A v \in 0..7 :
           translitBases[TranslitRows[r][1] + v] = TranslitRows[r][2] \o FormEndings[v + 1]
    /\ \A r, q \in DOMAIN TranslitRows :
           r # q => TranslitRows[r][1] + 7 < TranslitRows[q][1]
                      \/ TranslitRows[q][1] + 7 < TranslitRows[r][1]
    /\ \A cp \in DOMAIN translitBases : translitBases[cp] # <<>>

\* C19: TRANSLIT_BASES has a key for exactly base+0 .. base+7 of each row;
\* offsets 0..6 give the row's consonant followed by a, u, i, a, e, nothing,
\* o, and offset 7 the consonant followed by 'wa'; the rows do not overlap,
\* every value is non-empty, and nothing changes the table once it is built.
C19_TranslitTable == []TableShape /\ [][translitBases' = translitBases]_vars

\* the table is in use: U+1205, sixth form of the row 'h', was transliterated
\* to 'h', and U+1207, its eighth form, stands in the table as 'hwa'
C19_Witness ==
    /\ tlWord = <<4613>>
    /\ tlResult = <<104>>
    /\ translitBases[4615] = <<104, 119, 97>>

---------------------------------------------------------------------------
(* The index after its construction *)

\* C20 as stated: once the index is built, no query evaluation changes its
\* lexicon or its verses.
C20_IndexReadOnly ==
    [][searchIndex.loaded /\ (\E q \in SessionQueries : Ends(q)) =>
          /\ searchIndex'.words = searchIndex.words
          /\ searchIndex'.verses = searchIndex.verses]_vars

---------------------------------------------------------------------------
(* Overlapping evaluations *)

\* no performSearch call is waiting for the index
NoneWaiting == \A i \in DOMAIN calls : calls[i].caller # "search"

\* C21 as stated: once every evaluation has finished, the results panel shows
\* the outcome of the one that started last; the result of a superseded query
\* does not replace it.
C21_LatestShown ==
    NoneWaiting /\ resultsDiv.kind # "Blank" => shownFor = lastQuery

----------------------------------------------------------------------------
(* The lexicon loader: C22, C24 *)

\* C22 as stated: whenever fullLoaded is true, wordData holds the complete
\* lexicon; a lexicon taken from the cache or from words.json is never
\* overwritten by the priority word set.
C22_FullLexiconKept == fullLoaded => wordData = FullLexicon

\* the position of a loading status in idle, checking, priority, full, cached
StatusRank(status) ==
    CASE status = "idle" -> 0
      [] status = "checking" -> 1
      [] status = "priority" -> 2
      [] status = "full" -> 3
      [] status = "cached" -> 4

\* C24 as stated: loadingStatus only moves forward along idle, checking,
\* priority, full, cached (never backwards, never back to idle), and the
\* status 'cached' implies that the full lexicon is loaded.
C24_StatusForward ==
    /\ [](loadingStatus = "cached" => fullLoaded /\ wordData = FullLexicon)
    /\ [][StatusRank(loadingStatus') >= StatusRank(loadingStatus)]_vars


\* C23 as stated: the lexicon of a built search index is the complete lexicon;
\* once the full lexicon is loaded, the index that queries are evaluated
\* against holds all of its entries, never the priority subset.
C23_IndexLexiconComplete ==
    searchIndex.loaded /\ fullLoaded => searchIndex.words = corpus.words


\* the pieces of the markup of a verse text put together again
RECURSIVE PiecesText(_)
PiecesText(segs) ==
    IF segs = << >> THEN << >> ELSE Head(segs).text \o PiecesText(Tail(segs))

\* C25 as stated: in every shown verse match the highlighted segments are
\* exactly the case-insensitive occurrences of the query in the verse's text
\* and there is at least one; the text outside them is the verse's text
\* unaltered; also with &, < and > in the query or the text.
C25_HighlightExact ==
    Evaluated =>
        \A k \in DOMAIN resultsDiv.verses :
            LET item == resultsDiv.verses[k]
                segs == item.html.highlighted
                occurrences == HighlightMatch(item.english, ToLowerCase(shownFor))
            IN  /\ \E i \in DOMAIN segs : segs[i].mark
                /\ Len(segs) = Len(occurrences)
                /\ \A i \in DOMAIN segs :
                       /\ segs[i].mark = occurrences[i].mark
                       /\ segs[i].text = EscapeHtml(occurrences[i].text)
                       /\ segs[i].mark =>
                              /\ Len(occurrences[i].text) = Len(shownFor)
                              /\ \A j \in DOMAIN shownFor :
                                     SameLetter(occurrences[i].text[j], shownFor[j])
                /\ PiecesText(segs) = EscapeHtml(item.english)


----------------------------------------------------------------------------
(* getWordTranslit: C26 *)

\* the non-empty transliterations stored for the word in a dictionary
StoredIn(dict, word) ==
    IF ~dict.loaded THEN {}
    ELSE {dict.words[i].data.transliteration :
             i \in {j \in DOMAIN dict.words :
                       /\ dict.words[j].geez = word
                       /\ "transliteration" \in DOMAIN dict.words[j].data
                       /\ dict.words[j].data.transliteration # << >>}}

\* a step in which getWordTranslit has answered
TranslitAnswered == <<wtWord, wtResult>>' # <<wtWord, wtResult>>

\* C26: getWordTranslit answers with the first non-empty value of the chain:
\* the transliteration stored in geezDefs, else the one stored in wordData,
\* else transliterate(word); the computed value is the answer exactly when
\* neither dictionary stores one.
C26_TranslitChain ==
    [][TranslitAnswered =>
          IF StoredIn(geezDefs, wtWord') # {}
          THEN wtResult' \in StoredIn(geezDefs, wtWord')
          ELSE IF StoredIn(wordData, wtWord') # {}
          THEN wtResult' \in StoredIn(wordData, wtWord')
          ELSE wtResult' = Transliterate(wtWord')]_vars

\* with both dictionaries loaded: the entry of geezDefs has no transliteration
\* and the answer is the one stored in wordData
C26_Witness ==
    /\ geezDefs.loaded
    /\ wordData.loaded
    /\ wtWord = <<4656>>
    /\ wtResult = <<97, 88>>


----------------------------------------------------------------------------
(* The reading views: C27, C28, C29, C30 *)

\* the word spans a reader sees in the block: those of the text elements that
\* are not hidden
DisplayedWords(block) ==
    (IF block.hasText /\ ~block.text.hidden THEN WordsOf(block.text) ELSE << >>)
    \o Joined([k \in DOMAIN block.wrappers |-> WordsOf(block.wrappers[k].geez)],
              1, Len(block.wrappers))

\* C27 as stated: after any sequence of toggleGrammar and toggleInterlinear
\* calls the displayed word spans of every verse are styled iff grammarMode is
\* true.
C27_StyledIffGrammar ==
    \A b \in DOMAIN blocks :
        \A k \in DOMAIN DisplayedWords(blocks[b]) :
            DisplayedWords(blocks[b])[k].styled = grammarMode


\* C28: parallel view and interlinear view are never active together, and the
\* interlinear button is disabled exactly while parallelMode is true.
C28_ParallelExcludesInterlinear ==
    /\ ~(parallelMode /\ interlinearMode)
    /\ ilBtnDisabled = parallelMode

\* parallel view was turned on from interlinear view: a block that has been
\* taken out of interlinear view is in parallel view
C28_Witness ==
    /\ parallelMode
    /\ \E b \in DOMAIN blocks :
           /\ blocks[b].parallelApplied = "true"
           /\ blocks[b].hasText
           /\ blocks[b].text.interlinearApplied = "false"

\* the block is as the page was served
AsServed(block) ==
    /\ block.text = TextDiv(block.served)
    /\ ~block.translation.hidden
    /\ block.parallelApplied = "none"
    /\ ~block.parallelActive
    /\ block.wrappers = << >>

\* C29: the markup of a verse's text after enableInterlinear and
\* disableInterlinear is what it was before; enableInterlinear on a block that
\* is interlinear and disableInterlinear on one that is not change nothing; a
\* verse without word spans keeps its markup all along.
C29_InterlinearRoundTrip ==
    /\ [](\A b \in DOMAIN blocks :
              LET div == blocks[b].text
              IN  /\ div.interlinearApplied # "true" => div.nodes = blocks[b].served
                  /\ div.interlinearApplied = "true" =>
                         div.saved /\ div.originalHtml = blocks[b].served
                  /\ WordsOf(TextDiv(blocks[b].served)) = << >> =>
                         div.nodes = blocks[b].served
                  /\ ~blocks[b].hasText => AsServed(blocks[b]))
    /\ [][\A b \in DOMAIN blocks :
              (blocks[b].text.interlinearApplied = "true")
                  = (blocks'[b].text.interlinearApplied = "true")
              => blocks'[b] = blocks[b]]_vars

\* a verse with word spans has been through interlinear view and is back
C29_Witness ==
    \E b \in DOMAIN blocks :
        /\ blocks[b].text.interlinearApplied = "false"
        /\ WordsOf(blocks[b].text) # << >>
        /\ \E c \in DOMAIN blocks :
               /\ blocks[c].text.interlinearApplied = "true"
               /\ WordsOf(TextDiv(blocks[c].served)) = << >>

\* C30: after any sequence of enableParallel and disableParallel calls every
\* verse block holds at most one parallel wrapper, holds one iff it is marked
\* parallel-applied, its original text and translation are hidden iff the
\* wrapper is there, and a block without the original text or without the
\* translation is never marked or changed.
C30_OneWrapper ==
    \A b \in DOMAIN blocks :
        LET block == blocks[b]
        IN  /\ Len(block.wrappers) <= 1
            /\ (Len(block.wrappers) = 1) = (block.parallelApplied = "true")
            /\ block.hasText => (block.text.hidden = (block.wrappers # << >>))
            /\ block.hasTrans => (block.translation.hidden = (block.wrappers # << >>))
            /\ ~block.hasText \/ ~block.hasTrans => AsServed(block)

\* one block is in parallel view, another has been and is back
C30_Witness ==
    \E b, c \in DOMAIN blocks :
        /\ blocks[b].parallelApplied = "true"
        /\ Len(blocks[b].wrappers) = 1
        /\ blocks[c].parallelApplied = "false"
        /\ blocks[c].wrappers = << >>


----------------------------------------------------------------------------
(* The word modal and the cache: C31, C32, C33 *)

\* the modal shows a loading message
ShowsLoading == modalBody.kind = "loading"

\* the modal shows the word's details, 'Word not found', or the error message
ShowsOutcome == modalBody.kind \in {"details", "notFound", "error"}

\* the showWordEvolution calls that wait for a load
ModalCalls == {i \in DOMAIN lexCalls : lexCalls[i].caller = "modal"}

\* C31: with every request settling, while a showWordEvolution call waits
\* for its load the modal comes to show the details, 'Word not found' or the
\* error message; and when such a call ends, with a load failure too, the
\* modal shows one of the three for the word of that call.
C31_ShowEnds ==
    /\ (ModalCalls # {}) ~> ShowsOutcome
    /\ [][\A i \in ModalCalls :
              lexCalls' = RemoveAt(lexCalls, i)
                  => ShowsOutcome' /\ modalBody'.word = lexCalls[i].word]_vars

\* a load has failed and the modal says so
C31_Witness == modalBody.kind = "error" /\ lexCalls = << >>


\* C32: a showWordEvolution call that ends after a later call has asked for
\* another word leaves the modal as it is: what the later call displayed is
\* not overwritten.
C32_LatestKept ==
    [][\A i \in ModalCalls :
          lexCalls' = RemoveAt(lexCalls, i) /\ lexCalls[i].word # lastWord
              => modalBody' = modalBody]_vars


\* what is put under 'fullLexicon' is words.json as a successful response gave it
StoresFullOnly == idbStore' # idbStore => idbStore' = FullLexicon /\ wordData' = FullLexicon

\* a lexicon taken over from the cache has more than 100 entries
AdoptsLargeOnly == wordData.loaded /\ wordData = idbStore => Len(wordData.words) > CacheMinEntries

\* the call whose cache read has settled without a lexicon goes on to the
\* network: it waits for words-priority.json or for words.json
ReadsThenFetches ==
    \A i \in DOMAIN lexCalls :
        /\ lexCalls[i].pc = "idb"
        /\ \A j \in DOMAIN lexCalls' : lexCalls'[j].pc # "idb"
        /\ ~wordData'.loaded
        => \E j \in DOMAIN lexCalls' :
              /\ lexCalls'[j].pc \in {"priority", "full"}
              /\ lexCalls'[j].caller = lexCalls[i].caller
              /\ lexCalls'[j].word = lexCalls[i].word

\* C33: the cache entry 'fullLexicon' only ever receives the complete lexicon
\* of a successful words.json response; a cached lexicon is adopted only with
\* more than 100 entries; and a cache read or write that fails does not keep
\* the call from loading wordData from the network.
C33_CacheOptional ==
    /\ []AdoptsLargeOnly
    /\ [][StoresFullOnly]_vars
    /\ [][ReadsThenFetches]_vars

\* the first two parts alone
CacheSound == []AdoptsLargeOnly /\ [][StoresFullOnly]_vars


\* x is made of particles only
RECURSIVE IsParticleRun(_)
IsParticleRun(x) ==
    \/ x = << >>
    \/ \E n \in DOMAIN Particles :
          /\ StartsWith(x, Particles[n])
          /\ IsParticleRun(SubSeq(x, Len(Particles[n]) + 1, Len(x)))

\* the gloss that the description gives for a remainder
GlossFor(rest) ==
    IF rest = << >> THEN Placeholder
    ELSE IF Len(rest) > 25 THEN SubSeq(rest, 1, 22) \o Ellipsis
    ELSE rest

\* C34: truncateGloss returns a non-empty string of at most 25 characters:
\* the leading particles are stripped, the text is cut at the first comma or
\* semicolon and trimmed, a remainder of more than 25 characters becomes its
\* first 22 characters and '...', and an empty remainder or an empty input
\* gives '---'.
C34_GlossShape ==
    tgResult # << >> =>
        /\ Len(tgResult) \in 1..25
        /\ \E c \in 0..Len(tgDef) :
              /\ c = Len(tgDef) \/ tgDef[c + 1] \in Separators
              /\ \E k \in 0..c :
                    /\ \A j \in (k + 1)..c : tgDef[j] \notin Separators
                    /\ ~StartsWithParticle(SubSeq(tgDef, k + 1, Len(tgDef)))
                    /\ IsParticleRun(SubSeq(tgDef, 1, k))
                    /\ tgResult = GlossFor(Trim(SubSeq(tgDef, k + 1, c)))
        /\ tgDef = << >> => tgResult = Placeholder

\* two particles are stripped, the text is cut at a separator and the
\* remainder of more than 25 characters is shortened
C34_Witness ==
    /\ \E n \in DOMAIN Particles, m \in DOMAIN Particles :
          StartsWith(tgDef, Particles[n] \o Particles[m])
    /\ \E i \in DOMAIN tgDef : tgDef[i] \in Separators
    /\ tgResult = Letters(22) \o Ellipsis


\* the dictionary holds a non-empty definition or english text for the word
Defines(dict, word) ==
    /\ HasEntry(dict, word)
    /\ \/ Field(EntryOf(dict, word), "definition") # << >>
       \/ Field(EntryOf(dict, word), "english") # << >>

\* C35: getWordGloss answers '---' only when neither geezDefs nor wordData
\* holds a non-empty definition or english text for the word; an entry of
\* geezDefs without one does not hide the definition that wordData has.
C35_GlossFound ==
    [][(glWord' # glWord \/ glResult' # glResult) /\ glResult' = Placeholder
          => ~Defines(geezDefs, glWord') /\ ~Defines(wordData, glWord')]_vars

\* C36: the two tables agree: for a code point of a row of GEEZ_CONSONANTS
\* the consonant that analyzeGeezChar reports is the one that
\* buildTranslitTable gives the row of that code point, and a code point that
\* analyzeGeezChar reports as 'Unknown' is rendered by transliterate as '?'
\* or as itself.
C36_TablesAgree ==
    agChar # << >> =>
        LET codePoint == CodePointAt(agChar, 1)
        IN  /\ agResult.consonant # "Unknown" =>
                  \E r \in DOMAIN TranslitRows :
                      /\ codePoint - TranslitRows[r][1] \in 0..7
                      /\ TranslitRows[r][2] = agResult.translit
            /\ agResult.consonant = "Unknown" =>
                  Transliterate(agChar) \in {<<63>>, agChar}

====
